---- MODULE Spec2Model ----
(***************************************************************************)
(* The in-memory store of the ground-truth generator backend and the       *)
(* collections / QA-pair request handlers that work on it.                 *)
(*                                                                         *)
(*   providers/database/memory.py   _database, MemoryDatabase              *)
(*   routers/collections.py         the HTTP handlers                      *)
(*                                                                         *)
(* Representation.  A dict is a function whose domain is its key set; the  *)
(* empty dict and None are both the empty function (the code only ever     *)
(* tests them for truthiness).  A list is a sequence.  A timestamp is the  *)
(* number of minutes since 2023-01-01T00:00Z for the seeded records and a   *)
(* tick count after them for datetime.now(): only the order and equality   *)
(* of timestamps is kept.  Requests are served one after another, so every *)
(* clock read of a request is later than the reads of the request before   *)
(* it; two reads within one request may return the same value.  Long       *)
(* seeded texts (answers, revision comments) are cut to 40 characters and  *)
(* an embedded document snapshot is kept as its id.                        *)
(***************************************************************************)
EXTENDS Integers, Sequences, FiniteSets, TLC

VARIABLES
  db,      \* _database: collection name -> list of records
  clock,   \* the value the last datetime.now(UTC) returned
  uuids,   \* how many uuid.uuid4() values have been drawn
  writes,  \* how many requests or calls have changed the store
  resp,    \* the last call and what it answered
  users,   \* DEMO_USERS: user name or email -> user record
  issued,  \* the access tokens authenticate has handed out
  hashes,  \* hash(doc["id"]) % 100 of this process, None until first used
  instances, \* collection_name of every MemoryDatabase instance constructed
  loop     \* the asyncio event loop: the request tasks, the one that is running

vars == <<db, clock, uuids, writes, resp, users, issued, hashes, instances, loop>>

\* the process state outside the stores: the user table, the tokens handed
\* out, the hash values of the document ids, the MemoryDatabase instances,
\* the event loop
elsewhere == <<users, issued, hashes, instances, loop>>

\* ------------------------------------------------------------------ bounds
MaxWrites == 2
MaxCalls == 3

\* ------------------------------------------------------------ dict helpers
None == <<>>

\* None in a slot whose other values are strings (an Optional[str]): a reserved
\* string that no request carries
NoneStr == "<None>"

\* truthiness of d.get(k) for a string-valued key
Truthy(d, k) == k \in DOMAIN d /\ d[k] # "" /\ d[k] # NoneStr

Get(d, k, default) == IF k \in DOMAIN d THEN d[k] ELSE default

Put(d, k, v) == [x \in DOMAIN d \cup {k} |-> IF x = k THEN v ELSE d[x]]

\* a merge that keeps the update only
Merge_Replace(e, m) == m

Merge(e, m) == [k \in DOMAIN e \cup DOMAIN m |-> IF k \in DOMAIN m THEN m[k] ELSE e[k]]

Pop(d, ks) == [k \in DOMAIN d \ ks |-> d[k]]

Min(a, b) == IF a <= b THEN a ELSE b

\* s[:n]
Prefix(s, n) == [i \in 1..Min(n, Len(s)) |-> s[i]]

\* --------------------------------------------------------- the seeded store
SeedCollections ==
  << [id |-> "col1", name |-> "Equipment Manuals",
      description |-> "Technical manuals for equipment maintenance",
      tags |-> <<"manuals", "maintenance", "technical">>, document_count |-> 4,
      created_at |-> 193590, updated_at |-> 245745],
     [id |-> "col2", name |-> "SAP Notifications",
      description |-> "Historical customer issues and resolutions",
      tags |-> <<"sap", "notifications", "issues">>, document_count |-> 2,
      created_at |-> 143115, updated_at |-> 248360],
     [id |-> "col3", name |-> "Internal Wiki",
      description |-> "Knowledge base for common procedures",
      tags |-> <<"wiki", "knowledge", "procedures">>, document_count |-> 2,
      created_at |-> 6620, updated_at |-> 238110] >>

SeedQaPairs ==
  << [id |-> "qa1", collection_id |-> "col1",
      question |-> "How do I reset the equipment?",
      answer |-> "To reset the equipment, power cycle the ",
      documents |-> <<[id |-> "doc1"]>>,
      status |-> "approved",
      metadata |-> [priority |-> "high"],
      created_at |-> 218040, updated_at |-> 219810, created_by |-> "demo_user"],
     [id |-> "qa2", collection_id |-> "col1",
      question |-> "What are the maintenance intervals?",
      answer |-> "Regular maintenance should be performed ",
      documents |-> <<[id |-> "doc2"]>>,
      status |-> "ready_for_review",
      metadata |-> [priority |-> "medium"],
      created_at |-> 223785, updated_at |-> 225500, created_by |-> "demo_user"],
     [id |-> "qa3", collection_id |-> "col2",
      question |-> "How do I create a new SAP notification?",
      answer |-> "Navigate to the Notifications module, cl",
      documents |-> <<[id |-> "doc3"]>>,
      status |-> "ready_for_review",
      metadata |-> [priority |-> "low"],
      created_at |-> 231090, updated_at |-> 231090, created_by |-> "demo_user"],
     [id |-> "qa4", collection_id |-> "col3",
      question |-> "Where can I find the company holiday schedule?",
      answer |-> "The company holiday schedule is availabl",
      documents |-> <<[id |-> "doc4"]>>,
      status |-> "approved",
      metadata |-> [priority |-> "medium"],
      created_at |-> 200955, updated_at |-> 202150, created_by |-> "demo_user"],
     [id |-> "qa5", collection_id |-> "col1",
      question |-> "How do I troubleshoot error code E-45?",
      answer |-> "Error code E-45 indicates a power supply",
      documents |-> <<[id |-> "doc1"]>>,
      status |-> "rejected",
      metadata |-> [priority |-> "high"],
      created_at |-> 228380, updated_at |-> 229575, created_by |-> "demo_user"],
     [id |-> "qa6", collection_id |-> "col1",
      question |-> "What is the warranty period for replacement parts?",
      answer |-> "All replacement parts come with a 90-day",
      documents |-> <<[id |-> "doc5"]>>,
      status |-> "revision_requested",
      metadata |-> [priority |-> "medium", revision_comments |-> "Please provide more details about the ex"],
      created_at |-> 233850, updated_at |-> 233850, created_by |-> "demo_user"],
     [id |-> "qa7", collection_id |-> "col2",
      question |-> "What information should be included in an SAP notification?",
      answer |-> "An SAP notification should include the e",
      documents |-> <<[id |-> "doc3"]>>,
      status |-> "revision_requested",
      metadata |-> [priority |-> "high", revision_comments |-> "The answer is incomplete. Please include"],
      created_at |-> 215415, updated_at |-> 218005, created_by |-> "demo_user"],
     [id |-> "qa8", collection_id |-> "col3",
      question |-> "How do I request access to restricted wiki sections?",
      answer |-> "To request access to restricted wiki sec",
      documents |-> <<[id |-> "doc4"]>>,
      status |-> "revision_requested",
      metadata |-> [priority |-> "low", revision_comments |-> "This answer needs to be expanded to incl"],
      created_at |-> 223890, updated_at |-> 226940, created_by |-> "demo_user"] >>

SeedTimes ==
  {SeedCollections[i].updated_at : i \in 1..Len(SeedCollections)}
    \cup {SeedQaPairs[i].updated_at : i \in 1..Len(SeedQaPairs)}

\* the first clock read of the process is later than every seeded timestamp
ClockStart == 1 + CHOOSE t \in SeedTimes : \A u \in SeedTimes : u <= t

\* the values the n reads of datetime.now(UTC) in one request return, the
\* request before it having read c last: non-decreasing, the last one c + n
Reads(c, n) ==
  {r \in [1..n -> (c + 1)..(c + n)] :
     /\ r[n] = c + n
     /\ \A i \in 1..(n - 1) : r[i] <= r[i + 1]}

\* str(uuid.uuid4()): a value never drawn before
Uuid(n) == "uuid-" \o ToString(n)

\* --------------------------------------------------------- MemoryDatabase
\* f"{self.collection_name}_{len(_database[self.collection_name]) + 1}"
GenId(name, store) == name \o "_" \o ToString(Len(store) + 1)

\* the filter loop shared by find_all, update_one and delete_one
Matches(item, query) ==
  \A k \in DOMAIN query : k \in DOMAIN item /\ item[k] = query[k]

\* index of the first record the filter loop accepts, 0 when there is none
FirstMatch(store, query) ==
  IF \E i \in 1..Len(store) : Matches(store[i], query)
  THEN CHOOSE i \in 1..Len(store) :
         /\ Matches(store[i], query)
         /\ \A j \in 1..(i - 1) : ~Matches(store[j], query)
  ELSE 0

find_all(store, query) == SelectSeq(store, LAMBDA item : Matches(item, query))

\* item.get("id") == item_id
IdIs(item, item_id) == "id" \in DOMAIN item /\ item.id = item_id

find_one(store, query) ==
  IF DOMAIN query = {} THEN None
  ELSE IF DOMAIN query = {"id"}
       THEN IF \E i \in 1..Len(store) : IdIs(store[i], query.id)
            THEN store[CHOOSE i \in 1..Len(store) :
                         /\ IdIs(store[i], query.id)
                         /\ \A j \in 1..(i - 1) : ~IdIs(store[j], query.id)]
            ELSE None
       ELSE IF find_all(store, query) # <<>>
            THEN find_all(store, query)[1]
            ELSE None

\* the record insert_one appends and returns; now is its clock read
insert_one(name, store, document, now) ==
  LET withId == IF "id" \notin DOMAIN document /\ "_id" \notin DOMAIN document
                THEN Put(document, "id", GenId(name, store))
                ELSE document
  IN Put(Put(withId, "created_at", now), "updated_at", now)

\* an update that replaces the record by the update map
Updated_Replace(item, update, now) ==
  Put(Put(update, "id", item.id), "updated_at", now)

\* the record update_one leaves in place of item
Updated(item, update, now) ==
  LET keys == DOMAIN update \ {"id", "_id"}
  IN Put([k \in DOMAIN item \cup keys |->
            IF k \in keys THEN update[k] ELSE item[k]],
         "updated_at", now)

\* an update_one that changes every record the query matches
update_one_All(store, query, update, now) ==
  [j \in 1..Len(store) |->
     IF Matches(store[j], query) THEN Updated(store[j], update, now) ELSE store[j]]

\* the store after update_one; unchanged when nothing matches
update_one(store, query, update, now) ==
  LET i == FirstMatch(store, query)
  IN IF i = 0 THEN store
     ELSE [store EXCEPT ![i] = Updated(store[i], update, now)]

\* a delete_one that removes nothing
delete_one_Keeps(store, query) == store

\* the store after delete_one; unchanged when nothing matches
delete_one(store, query) ==
  LET i == FirstMatch(store, query)
  IN IF i = 0 THEN store
     ELSE [j \in 1..(Len(store) - 1) |-> IF j < i THEN store[j] ELSE store[j + 1]]

\* for qa_pair in qa_pairs: await qa_pairs_db.delete_one({"id": qa_pair["id"]})
\* qa_pair["id"] raises KeyError on a record without id, leaving the earlier
\* deletions in place.
RECURSIVE CascadeDelete(_, _)
CascadeDelete(qa, found) ==
  IF found = <<>> THEN [qa |-> qa, exc |-> ""]
  ELSE IF "id" \notin DOMAIN Head(found) THEN [qa |-> qa, exc |-> "KeyError"]
  ELSE CascadeDelete(delete_one(qa, [id |-> Head(found).id]), Tail(found))

\* delete_collection without the loop over the collection's QA pairs
delete_collection_NoCascade(d, collection_id) ==
  IF find_one(d.collections, [id |-> collection_id]) = None
  THEN [db |-> d, exc |-> "ValueError"]
  ELSE [db |-> [d EXCEPT !.collections = delete_one(@, [id |-> collection_id])],
        exc |-> ""]

\* MemoryDatabase("collections").delete_collection(collection_id):
\* the two stores afterwards and the exception raised, "" for none
delete_collection(d, collection_id) ==
  IF find_one(d.collections, [id |-> collection_id]) = None
  THEN [db |-> d, exc |-> "ValueError"]
  ELSE LET c == CascadeDelete(d.qa_pairs,
                              find_all(d.qa_pairs, [collection_id |-> collection_id]))
       IN IF c.exc # ""
          THEN [db |-> [d EXCEPT !.qa_pairs = c.qa], exc |-> c.exc]
          ELSE [db |-> [d EXCEPT !.qa_pairs = c.qa,
                                 !.collections = delete_one(@, [id |-> collection_id])],
                exc |-> ""]

\* list_qa_pairs without the check that the collection exists
list_qa_pairs_NoCheck(d, collection_id) ==
  [exc |-> "", rows |-> find_all(d.qa_pairs, [collection_id |-> collection_id])]

\* MemoryDatabase.list_qa_pairs(collection_id): the rows, or the exception raised
list_qa_pairs(d, collection_id) ==
  IF find_one(d.collections, [id |-> collection_id]) = None
  THEN [exc |-> "ValueError", rows |-> <<>>]
  ELSE [exc |-> "", rows |-> find_all(d.qa_pairs, [collection_id |-> collection_id])]

\* ------------------------------------------------------- request bodies
\* CollectionCreate / CollectionBase as validated by the framework
\* (description: str | None = None, tags = [], metadata: dict | None = None)
CollectionInputs ==
  << [name |-> "Field Reports", description |-> NoneStr,
      tags |-> <<>>, metadata |-> None],
     [name |-> "Equipment Manuals (rev B)", description |-> "Second revision",
      tags |-> <<"manuals">>, metadata |-> [owner |-> "ops"]] >>

\* QAPairCreate (documents = [], status = "ready_for_review", metadata = {})
QaPairInputs ==
  << [question |-> "How often is the filter replaced?", answer |-> "Every 6 months.",
      documents |-> <<>>, status |-> "ready_for_review", metadata |-> None],
     [question |-> "Who signs off a repair?", answer |-> "The shift lead.",
      documents |-> <<[id |-> "doc2"]>>, status |-> "draft",
      metadata |-> [priority |-> "high"]],
     [question |-> "How often is the filter replaced?", answer |-> "Every 6 months.",
      documents |-> <<>>, status |-> "", metadata |-> None] >>

\* QAPairUpdate: a field left out (or null) is a key the record does not have
PatchInputs ==
  << [status |-> "approved"],
     [status |-> "approved", metadata |-> [approved_by |-> "reviewer"]],
     [status |-> "revision_requested",
      metadata |-> [revision_feedback |-> "Add the source section",
                    revision_requested_by |-> "reviewer"]],
     [status |-> "archived", answer |-> "Revised answer."],
     [answer |-> "Revised answer.", question |-> "Revised question?",
      documents |-> <<>>] >>

\* the ids the requests are addressed to: a seeded record, every record a
\* request has created, and an id that no record has
Created(store) ==
  {store[i].id : i \in {j \in 1..Len(store) : store[j].id \in {Uuid(n) : n \in 1..uuids}}}

CollectionIds == {"col1", "no-such-collection"} \cup Created(db.collections)

QaPairIds == {"qa6", "no-such-qa-pair"} \cup Created(db.qa_pairs)

\* ------------------------------------------------------------- responses
Response(op, id, req, code, body) ==
  [op |-> op, id |-> id, req |-> req, code |-> code, exc |-> "", body |-> body]

\* status_counts[qa_pair.get("status", "draft")] += 1 over qa_pairs
StatusCounts(qa_pairs) ==
  LET st(i) == Get(qa_pairs[i], "status", "draft")
  IN [s \in {st(i) : i \in 1..Len(qa_pairs)} |->
        Cardinality({i \in 1..Len(qa_pairs) : st(i) = s})]

\* the count kept in the collection record instead of the tally
DocumentCount_Persisted(collection, qa_pairs) == Get(collection, "document_count", 0)

\* collection["document_count"] = len(qa_pairs)
DocumentCount(collection, qa_pairs) == Len(qa_pairs)

\* the statistics a handler attaches to the collection record it returns
WithStats(collection, qa_pairs) ==
  Put(Put(collection, "document_count", DocumentCount(collection, qa_pairs)),
      "status_counts", StatusCounts(qa_pairs))

\* [qa_pair["question"] for qa_pair in qa_pairs[:3]]
SampleQuestions(qa_pairs) ==
  [i \in 1..Len(Prefix(qa_pairs, 3)) |-> qa_pairs[i].question]

\* what GET /collections/{collection_id} answers on store d
GetCollectionResponse(d, collection_id) ==
  LET collection == find_one(d.collections, [id |-> collection_id])
      qa_pairs   == find_all(d.qa_pairs, [collection_id |-> collection_id])
  IN IF collection = None
     THEN Response("GET /collections/{id}", collection_id, None, 404, None)
     ELSE Response("GET /collections/{id}", collection_id, None, 200,
                   WithStats(collection, qa_pairs))

\* what GET /collections/qa-pairs/{qa_pair_id} answers on store d
GetQaPairResponse(d, qa_pair_id) ==
  LET qa_pair == find_one(d.qa_pairs, [id |-> qa_pair_id])
  IN IF qa_pair = None
     THEN Response("GET /collections/qa-pairs/{id}", qa_pair_id, None, 404, None)
     ELSE Response("GET /collections/qa-pairs/{id}", qa_pair_id, None, 200, qa_pair)

\* ------------------------------------------- providers/auth/simple_auth.py
\* the user table at import: two users, each under the email and a short alias
DEMO_USERS ==
  [k \in {"demo@example.com", "demo", "admin@example.com", "admin"} |->
     IF k \in {"demo@example.com", "demo"}
     THEN [id |-> "user_1", name |-> "Demo User", email |-> "demo@example.com",
           password |-> "password", roles |-> <<"contributor">>]
     ELSE [id |-> "user_2", name |-> "Admin User", email |-> "admin@example.com",
           password |-> "admin123", roles |-> <<"contributor", "admin">>]]

\* ------------------------------------------------- routers/collections.py
Init ==
  /\ db = [collections |-> SeedCollections, qa_pairs |-> SeedQaPairs]
  /\ clock = ClockStart
  /\ uuids = 0
  /\ writes = 0
  /\ resp = Response("start", "", None, 0, None)
  /\ users = DEMO_USERS
  /\ issued = {}
  /\ hashes = None
  /\ instances = <<>>
  /\ loop = [tasks |-> <<>>, running |-> 0]

\* a GET /collections that writes the statistics into the stored records
GetCollections_Persisting ==
  /\ resp' = Response("GET /collections", "", None, 200, db.collections)
  /\ db' = [db EXCEPT !.collections =
              [i \in 1..Len(db.collections) |->
                 WithStats(db.collections[i],
                           find_all(db.qa_pairs, [collection_id |-> db.collections[i].id]))]]
  /\ UNCHANGED <<clock, uuids, writes, elsewhere>>

\* GET /collections
GetCollections ==
  /\ resp' = Response("GET /collections", "", None, 200,
       [i \in 1..Len(db.collections) |->
          LET qa_pairs == find_all(db.qa_pairs,
                                   [collection_id |-> db.collections[i].id])
          IN Put(WithStats(db.collections[i], qa_pairs),
                 "sample_questions", SampleQuestions(qa_pairs))])
  /\ UNCHANGED <<db, clock, uuids, writes, elsewhere>>

\* POST /collections.  collection.metadata or {} is collection.metadata in this
\* representation; the handler returns its own dict, not the stored copy.
CreateCollection(collection) ==
  /\ writes < MaxWrites
  /\ \E now \in Reads(clock, 2) :
       LET t1 == now[1]
           t2 == now[2]
           new_collection ==
             [id |-> Uuid(uuids + 1),
              name |-> collection.name,
              description |-> collection.description,
              tags |-> collection.tags,
              metadata |-> collection.metadata,
              document_count |-> 0,
              created_at |-> t1,
              updated_at |-> t1]
       IN /\ db' = [db EXCEPT !.collections =
                      Append(@, insert_one("collections", @, new_collection, t2))]
          /\ clock' = t2
          /\ resp' = Response("POST /collections", "", collection, 201, new_collection)
  /\ uuids' = uuids + 1
  /\ writes' = writes + 1
  /\ UNCHANGED elsewhere

\* GET /collections/{collection_id}
GetCollection(collection_id) ==
  /\ resp' = GetCollectionResponse(db, collection_id)
  /\ UNCHANGED <<db, clock, uuids, writes, elsewhere>>

\* DELETE /collections/{collection_id}.  Only ValueError is turned into 404; a
\* KeyError from the cascade leaves the handler and is answered 500.
DeleteCollection(collection_id) ==
  LET r == delete_collection(db, collection_id)
  IN IF r.exc = "ValueError"
     THEN /\ resp' = Response("DELETE /collections/{id}", collection_id, None, 404, None)
          /\ UNCHANGED <<db, clock, uuids, writes, elsewhere>>
     ELSE /\ writes < MaxWrites
          /\ db' = r.db
          /\ resp' = Response("DELETE /collections/{id}", collection_id, None,
                              IF r.exc = "" THEN 204 ELSE 500, None)
          /\ writes' = writes + 1
          /\ UNCHANGED <<clock, uuids, elsewhere>>

\* GET /collections/{collection_id}/qa-pairs
GetQaPairs(collection_id) ==
  LET r == list_qa_pairs(db, collection_id)
  IN /\ resp' = IF r.exc = "ValueError"
                THEN Response("GET /collections/{id}/qa-pairs", collection_id, None, 404, None)
                ELSE Response("GET /collections/{id}/qa-pairs", collection_id, None, 200, r.rows)
     /\ UNCHANGED <<db, clock, uuids, writes, elsewhere>>

\* GET /collections/qa-pairs/{qa_pair_id}
GetQaPair(qa_pair_id) ==
  /\ resp' = GetQaPairResponse(db, qa_pair_id)
  /\ UNCHANGED <<db, clock, uuids, writes, elsewhere>>

\* PUT /collections/{collection_id}.  update_one finds the record find_one
\* found, so the 500 answer for a failed update has no sequential run.
UpdateCollection(collection_id, collection) ==
  IF find_one(db.collections, [id |-> collection_id]) = None
  THEN /\ resp' = Response("PUT /collections/{id}", collection_id, collection, 404, None)
       /\ UNCHANGED <<db, clock, uuids, writes, elsewhere>>
  ELSE /\ writes < MaxWrites
       /\ \E now \in Reads(clock, 2) :
            LET t1 == now[1]
                t2 == now[2]
                update_data ==
                  [name |-> collection.name,
                   description |-> collection.description,
                   tags |-> collection.tags,
                   metadata |-> collection.metadata,
                   updated_at |-> t1]
                store == update_one(db.collections, [id |-> collection_id], update_data, t2)
                updated_collection == store[FirstMatch(db.collections, [id |-> collection_id])]
                qa_pairs == find_all(db.qa_pairs, [collection_id |-> collection_id])
            IN /\ db' = [db EXCEPT !.collections = store]
               /\ clock' = t2
               /\ resp' = Response("PUT /collections/{id}", collection_id, collection, 200,
                                   WithStats(updated_collection, qa_pairs))
       /\ writes' = writes + 1
       /\ UNCHANGED <<uuids, elsewhere>>

\* POST /collections/{collection_id}/qa-pairs.  status is
\* qa_pair.status or "ready_for_review"; the handler returns its own dict.
CreateQaPair(collection_id, qa_pair) ==
  IF find_one(db.collections, [id |-> collection_id]) = None
  THEN /\ resp' = Response("POST /collections/{id}/qa-pairs", collection_id, qa_pair, 404, None)
       /\ UNCHANGED <<db, clock, uuids, writes, elsewhere>>
  ELSE /\ writes < MaxWrites
       /\ \E now \in Reads(clock, 2) :
            LET t1 == now[1]
                t2 == now[2]
                new_qa_pair ==
                  [id |-> Uuid(uuids + 1),
                   collection_id |-> collection_id,
                   question |-> qa_pair.question,
                   answer |-> qa_pair.answer,
                   documents |-> qa_pair.documents,
                   status |-> IF qa_pair.status # "" THEN qa_pair.status
                              ELSE "ready_for_review",
                   metadata |-> qa_pair.metadata,
                   created_at |-> t1,
                   updated_at |-> t1,
                   created_by |-> "demo_user"]
            IN /\ db' = [db EXCEPT !.qa_pairs =
                           Append(@, insert_one("qa_pairs", @, new_qa_pair, t2))]
               /\ clock' = t2
               /\ resp' = Response("POST /collections/{id}/qa-pairs", collection_id,
                                   qa_pair, 201, new_qa_pair)
       /\ uuids' = uuids + 1
       /\ writes' = writes + 1
       /\ UNCHANGED elsewhere

\* a status list that lets one more value through
valid_statuses_Wider ==
  {"ready_for_review", "approved", "revision_requested", "rejected", "archived"}

valid_statuses == {"ready_for_review", "approved", "revision_requested", "rejected"}

\* the approval branch of update_qa_pair: revision feedback is being archived
Archives(existing_metadata, qa_pair_update) ==
  /\ Get(qa_pair_update, "status", NoneStr) = "approved"
  /\ Truthy(existing_metadata, "revision_feedback")
       \/ Truthy(existing_metadata, "revision_comments")

\* merged_metadata as update_qa_pair leaves it; now is the clock read that
\* stands in for a missing approved_at
MergedMetadata(existing_metadata, qa_pair_update, now) ==
  LET merged == Merge(existing_metadata, qa_pair_update.metadata)
      archived_feedback ==
        [revision_feedback |->
           IF Truthy(existing_metadata, "revision_feedback")
           THEN existing_metadata.revision_feedback
           ELSE existing_metadata.revision_comments,
         revision_requested_by |-> Get(existing_metadata, "revision_requested_by", NoneStr),
         revision_requested_at |-> Get(existing_metadata, "revision_requested_at", NoneStr),
         archived_on_approval_by |-> Get(merged, "approved_by", "system"),
         archived_on_approval_at |-> Get(merged, "approved_at", now),
         archive_reason |-> "moved_to_history_on_approval"]
  IN IF Archives(existing_metadata, qa_pair_update)
     THEN Pop(Put(merged, "revision_history",
                  Append(Get(merged, "revision_history", <<>>), archived_feedback)),
              {"revision_feedback", "revision_comments",
               "revision_requested_by", "revision_requested_at"})
     ELSE merged

\* an update_data that also names the author of the record
UpdateData_Reassigns(qa_pair, qa_pair_update, t1, t2) ==
  [created_by |-> "patcher", updated_at |-> t2]

\* update_data as update_qa_pair builds it from the request
UpdateData(qa_pair, qa_pair_update, t1, t2) ==
  LET fields == [k \in DOMAIN qa_pair_update \ {"metadata"} |-> qa_pair_update[k]]
      withMeta == IF "metadata" \in DOMAIN qa_pair_update
                  THEN Put(fields, "metadata",
                           MergedMetadata(Get(qa_pair, "metadata", None),
                                          qa_pair_update, t1))
                  ELSE fields
  IN Put(withMeta, "updated_at", t2)

\* PATCH /collections/qa-pairs/{qa_pair_id}
UpdateQaPair(qa_pair_id, qa_pair_update) ==
  LET qa_pair == find_one(db.qa_pairs, [id |-> qa_pair_id])
      op == "PATCH /collections/qa-pairs/{id}"
  IN IF qa_pair = None
     THEN \* the HTTPException(404) is raised inside the try block, and the
          \* except Exception clause around it answers 422
          /\ resp' = Response(op, qa_pair_id, qa_pair_update, 422, None)
          /\ UNCHANGED <<db, clock, uuids, writes, elsewhere>>
     ELSE IF "status" \in DOMAIN qa_pair_update
             /\ qa_pair_update.status \notin valid_statuses
     THEN /\ resp' = Response(op, qa_pair_id, qa_pair_update, 400, None)
          /\ UNCHANGED <<db, clock, uuids, writes, elsewhere>>
     ELSE /\ writes < MaxWrites
          /\ \E now \in Reads(clock, IF "metadata" \in DOMAIN qa_pair_update
                                           /\ Archives(Get(qa_pair, "metadata", None),
                                                       qa_pair_update)
                                        THEN 3 ELSE 2) :
                 LET n  == Len(now)
                     t1 == now[1]
                     t2 == now[n - 1]
                     t3 == now[n]
                     store == update_one(db.qa_pairs, [id |-> qa_pair_id],
                                         UpdateData(qa_pair, qa_pair_update, t1, t2), t3)
                 IN /\ db' = [db EXCEPT !.qa_pairs = store]
                    /\ clock' = t3
                    /\ resp' = Response(op, qa_pair_id, qa_pair_update, 200,
                                        store[FirstMatch(db.qa_pairs, [id |-> qa_pair_id])])
          /\ writes' = writes + 1
          /\ UNCHANGED <<uuids, elsewhere>>

Next ==
  \/ GetCollections
  \/ \E i \in 1..Len(CollectionInputs) : CreateCollection(CollectionInputs[i])
  \/ \E id \in CollectionIds : \E i \in 1..Len(CollectionInputs) :
       UpdateCollection(id, CollectionInputs[i])
  \/ \E id \in CollectionIds : GetCollection(id)
  \/ \E id \in CollectionIds : DeleteCollection(id)
  \/ \E id \in CollectionIds : GetQaPairs(id)
  \/ \E id \in CollectionIds : \E i \in 1..Len(QaPairInputs) :
       CreateQaPair(id, QaPairInputs[i])
  \/ \E id \in QaPairIds : GetQaPair(id)
  \/ \E id \in QaPairIds : \E i \in 1..Len(PatchInputs) :
       UpdateQaPair(id, PatchInputs[i])

\* any sequential sequence of requests to the collections router
Spec == Init /\ [][Next]_vars

\* --------------------------------------------- PATCH requests on metadata
\* QAPairUpdate bodies: an approval without metadata and one with, a revision
\* request, a metadata key the pair has, a key it does not have, a
\* revision_history sent by the client, an empty metadata, and no metadata
RevisionPatches ==
  << [status |-> "approved"],
     [status |-> "approved", metadata |-> [approved_by |-> "reviewer"]],
     [status |-> "revision_requested",
      metadata |-> [revision_feedback |-> "Add the source section",
                    revision_requested_by |-> "reviewer"]],
     [metadata |-> [priority |-> "urgent"]],
     [metadata |-> [reviewer_note |-> "checked against the manual"]],
     [metadata |-> [revision_history |-> <<>>]],
     [metadata |-> None],
     [answer |-> "Revised answer."] >>

\* the QA pairs the PATCH requests are addressed to: one without revision
\* feedback, one with revision_comments, and an id that no record has
PatchTargets == {"qa1", "qa6", "no-such-qa-pair"}

NextPatch ==
  \/ \E id \in PatchTargets : \E i \in 1..Len(RevisionPatches) :
       UpdateQaPair(id, RevisionPatches[i])
  \/ \E id \in PatchTargets : GetQaPair(id)

\* any sequence of PATCH and GET requests on QA pairs
SpecPatch == Init /\ [][NextPatch]_vars

\* ------------------------------------------- MemoryDatabase, called directly
\* the provider interface as the unit tests use it, on the instances for
\* "collections" and "qa_pairs"

\* documents handed to create_collection: none carries an id
CollectionDocs ==
  << [name |-> "Test Collection", description |-> "A test collection",
      metadata |-> [key |-> "value"]],
     [name |-> "Test Collection 2", description |-> "Another test collection",
      metadata |-> [key |-> "value2"]] >>

\* a document handed to insert_one on qa_pairs with an id of the caller's choice
QaPairDocs ==
  << [id |-> "qa3", collection_id |-> "col1",
      question |-> "How do I create a new SAP notification?",
      answer |-> "See the SAP manual.", status |-> "ready_for_review"] >>

\* update maps; the second carries id and updated_at of the caller's choice
UpdateDocs ==
  << [name |-> "Updated Test Collection",
      description |-> "An updated test collection",
      metadata |-> [key |-> "new_value"]],
     [id |-> "col9", name |-> "Renamed", updated_at |-> 0] >>

\* the collection ids the calls are addressed to
StoredCollectionIds ==
  ({db.collections[i].id : i \in 1..Len(db.collections)} \ {"col2", "col3"})
    \cup {"col1", "no-such-collection"}

Returned(op, id, req, exc, body) ==
  [op |-> op, id |-> id, req |-> req, code |-> 0, exc |-> exc, body |-> body]

\* MemoryDatabase("collections").create_collection(document)
DbCreateCollection(document) ==
  /\ writes < MaxCalls
  /\ \E now \in Reads(clock, 1) :
       LET document_copy == insert_one("collections", db.collections, document, now[1])
       IN /\ db' = [db EXCEPT !.collections = Append(@, document_copy)]
          /\ clock' = now[1]
          /\ resp' = Returned("create_collection", "", document, "", document_copy)
  /\ writes' = writes + 1
  /\ UNCHANGED <<uuids, elsewhere>>

\* MemoryDatabase("qa_pairs").insert_one(document)
DbInsertQaPair(document) ==
  /\ writes < MaxCalls
  /\ \E now \in Reads(clock, 1) :
       LET document_copy == insert_one("qa_pairs", db.qa_pairs, document, now[1])
       IN /\ db' = [db EXCEPT !.qa_pairs = Append(@, document_copy)]
          /\ clock' = now[1]
          /\ resp' = Returned("insert_one", "", document, "", document_copy)
  /\ writes' = writes + 1
  /\ UNCHANGED <<uuids, elsewhere>>

\* MemoryDatabase("collections").get_collection(collection_id)
DbGetCollection(collection_id) ==
  LET result == find_one(db.collections, [id |-> collection_id])
  IN /\ resp' = Returned("get_collection", collection_id, None,
                         IF result = None THEN "ValueError" ELSE "", result)
     /\ UNCHANGED <<db, clock, uuids, writes, elsewhere>>

\* MemoryDatabase("collections").delete_one({"id": collection_id})
DbDeleteOne(collection_id) ==
  LET store == delete_one(db.collections, [id |-> collection_id])
      op    == "delete_one"
  IN IF FirstMatch(db.collections, [id |-> collection_id]) = 0
     THEN /\ resp' = Returned(op, collection_id, None, "", FALSE)
          /\ UNCHANGED <<db, clock, uuids, writes, elsewhere>>
     ELSE /\ writes < MaxCalls
          /\ db' = [db EXCEPT !.collections = store]
          /\ resp' = Returned(op, collection_id, None, "", TRUE)
          /\ writes' = writes + 1
          /\ UNCHANGED <<clock, uuids, elsewhere>>

\* MemoryDatabase("collections").update_one({"id": collection_id}, update)
DbUpdateOne(collection_id, update) ==
  LET i  == FirstMatch(db.collections, [id |-> collection_id])
      op == "update_one"
  IN IF i = 0
     THEN /\ resp' = Returned(op, collection_id, update, "", None)
          /\ UNCHANGED <<db, clock, uuids, writes, elsewhere>>
     ELSE /\ writes < MaxCalls
          /\ \E now \in Reads(clock, 1) :
               LET store == update_one(db.collections, [id |-> collection_id],
                                       update, now[1])
               IN /\ db' = [db EXCEPT !.collections = store]
                  /\ clock' = now[1]
                  /\ resp' = Returned(op, collection_id, update, "", store[i])
          /\ writes' = writes + 1
          /\ UNCHANGED <<uuids, elsewhere>>

\* MemoryDatabase("collections").update_collection(collection_id, collection_data)
DbUpdateCollection(collection_id, collection_data) ==
  LET op == "update_collection"
  IN IF find_one(db.collections, [id |-> collection_id]) = None
     THEN /\ resp' = Returned(op, collection_id, collection_data, "ValueError", None)
          /\ UNCHANGED <<db, clock, uuids, writes, elsewhere>>
     ELSE /\ writes < MaxCalls
          /\ \E now \in Reads(clock, 1) :
               LET data  == Put(collection_data, "id", collection_id)
                   i     == FirstMatch(db.collections, [id |-> collection_id])
                   store == update_one(db.collections, [id |-> collection_id],
                                       data, now[1])
               IN /\ db' = [db EXCEPT !.collections = store]
                  /\ clock' = now[1]
                  /\ resp' = Returned(op, collection_id, collection_data, "", store[i])
          /\ writes' = writes + 1
          /\ UNCHANGED <<uuids, elsewhere>>

\* MemoryDatabase("collections").delete_collection(collection_id)
DbDeleteCollection(collection_id) ==
  LET r  == delete_collection(db, collection_id)
      op == "delete_collection"
  IN IF r.exc = "ValueError"
     THEN /\ resp' = Returned(op, collection_id, None, "ValueError", None)
          /\ UNCHANGED <<db, clock, uuids, writes, elsewhere>>
     ELSE /\ writes < MaxCalls
          /\ db' = r.db
          /\ resp' = Returned(op, collection_id, None, r.exc,
                              IF r.exc = "" THEN find_one(db.collections,
                                                          [id |-> collection_id])
                              ELSE None)
          /\ writes' = writes + 1
          /\ UNCHANGED <<clock, uuids, elsewhere>>

\* the queries handed to find_all and find_one: the empty query, queries by
\* id alone, by another key, and by two keys
Queries ==
  << None,
     [id |-> "col1"],
     [id |-> "no-such-collection"],
     [name |-> "Test Collection"],
     [name |-> "Test Collection", description |-> "Another test collection"],
     [id |-> "col1", name |-> "Test Collection"],
     [metadata |-> [key |-> "value"]] >>

\* MemoryDatabase("collections").find_all(query)
DbFindAll(query) ==
  /\ resp' = Returned("find_all", "", query, "", find_all(db.collections, query))
  /\ UNCHANGED <<db, clock, uuids, writes, elsewhere>>

\* MemoryDatabase("collections").find_one(query)
DbFindOne(query) ==
  /\ resp' = Returned("find_one", "", query, "", find_one(db.collections, query))
  /\ UNCHANGED <<db, clock, uuids, writes, elsewhere>>

NextDb ==
  \/ \E i \in 1..Len(CollectionDocs) : DbCreateCollection(CollectionDocs[i])
  \/ \E i \in 1..Len(QaPairDocs) : DbInsertQaPair(QaPairDocs[i])
  \/ \E id \in StoredCollectionIds : DbGetCollection(id)
  \/ \E id \in StoredCollectionIds : DbDeleteOne(id)
  \/ \E id \in StoredCollectionIds : \E i \in 1..Len(UpdateDocs) :
       DbUpdateOne(id, UpdateDocs[i])
  \/ \E id \in StoredCollectionIds : \E i \in 1..Len(UpdateDocs) :
       DbUpdateCollection(id, UpdateDocs[i])
  \/ \E id \in StoredCollectionIds : DbDeleteCollection(id)
  \/ \E i \in 1..Len(Queries) : DbFindAll(Queries[i])
  \/ \E i \in 1..Len(Queries) : DbFindOne(Queries[i])

\* any sequence of calls on the provider
SpecDb == Init /\ [][NextDb]_vars

\* -------------------------------------- update_one / delete_one by a query
\* MemoryDatabase("collections").update_one(query, update) for any query; the
\* empty query is {} here and matches every record
DbUpdateWhere(query, update) ==
  LET i   == FirstMatch(db.collections, query)
      op  == "update_one"
      req == [query |-> query, update |-> update]
  IN IF i = 0
     THEN /\ resp' = Returned(op, "", req, "", None)
          /\ UNCHANGED <<db, clock, uuids, writes, elsewhere>>
     ELSE /\ writes < MaxCalls
          /\ \E now \in Reads(clock, 1) :
               LET store == update_one(db.collections, query, update, now[1])
               IN /\ db' = [db EXCEPT !.collections = store]
                  /\ clock' = now[1]
                  /\ resp' = Returned(op, "", req, "", store[i])
          /\ writes' = writes + 1
          /\ UNCHANGED <<uuids, elsewhere>>

\* MemoryDatabase("collections").delete_one(query) for any query
DbDeleteWhere(query) ==
  LET op  == "delete_one"
      req == [query |-> query]
  IN IF FirstMatch(db.collections, query) = 0
     THEN /\ resp' = Returned(op, "", req, "", FALSE)
          /\ UNCHANGED <<db, clock, uuids, writes, elsewhere>>
     ELSE /\ writes < MaxCalls
          /\ db' = [db EXCEPT !.collections = delete_one(@, query)]
          /\ resp' = Returned(op, "", req, "", TRUE)
          /\ writes' = writes + 1
          /\ UNCHANGED <<clock, uuids, elsewhere>>

NextQuery ==
  \/ \E i \in 1..Len(CollectionDocs) : DbCreateCollection(CollectionDocs[i])
  \/ \E q \in 1..Len(Queries) : \E i \in 1..Len(UpdateDocs) :
       DbUpdateWhere(Queries[q], UpdateDocs[i])
  \/ \E q \in 1..Len(Queries) : DbDeleteWhere(Queries[q])

\* any sequence of inserts, and of updates and deletes by a query
SpecQuery == Init /\ [][NextQuery]_vars

\* ------------------------------------------- updates and identity fields
\* update maps that name identity fields: id and updated_at, _id, and a
\* created_at later than any clock read
IdentityUpdates ==
  << [id |-> "col9", name |-> "Renamed", updated_at |-> 0],
     [_id |-> "x9", description |-> "Relabelled"],
     [created_at |-> 999999, name |-> "Postdated"] >>

\* the records the updates are addressed to: a seeded collection, a seeded QA
\* pair, and ids that no record has
UpdateTargets == {"col1", "qa6", "no-such-collection"}

NextIdentity ==
  \/ \E id \in UpdateTargets : \E i \in 1..Len(IdentityUpdates) :
       DbUpdateOne(id, IdentityUpdates[i])
  \/ \E id \in UpdateTargets : UpdateCollection(id, CollectionInputs[2])
  \/ \E id \in UpdateTargets : \E i \in {2, 5} : UpdateQaPair(id, PatchInputs[i])

\* update_one calls and PUT / PATCH requests, in any order
SpecIdentity == Init /\ [][NextIdentity]_vars

\* ------------------------------------- records in the hands of the caller
\* What a caller does to a dict it passed to or got back from the provider,
\* before it makes its next call.  find_all, find_one and update_one return
\* deepcopy(...) of the stored record and insert_one stores a deepcopy of the
\* document it is given; insert_one returns document_copy, the object it has
\* just appended to the list.

\* assignments a caller makes: record[key] = value, record["metadata"][key] = value
Mutations ==
  << [nested |-> FALSE, key |-> "name", value |-> "changed by the caller"],
     [nested |-> TRUE, key |-> "key", value |-> "changed by the caller"] >>

\* the record after the assignment
Assign(record, m) ==
  IF m.nested
  THEN Put(record, "metadata", Put(record.metadata, m.key, m.value))
  ELSE Put(record, m.key, m.value)

\* the assignment raises nothing on record
Assignable(record, m) == m.nested => "metadata" \in DOMAIN record

\* the caller assigns into the record the last call returned (the first
\* record of the list for find_all)
MutateReturned(m) ==
  LET record == IF resp.op = "find_all" THEN resp.body[1] ELSE resp.body
  IN /\ resp.op \in {"create_collection", "get_collection", "update_one",
                      "find_one", "find_all"}
     /\ resp.exc = "" /\ resp.body # None
     /\ Assignable(record, m)
     /\ resp' = Returned("mutate", "", [of |-> resp.op, mutation |-> m], "",
                         Assign(record, m))
     /\ db' = IF resp.op = "create_collection"
              THEN \* the record is the last element of the list itself
                   [db EXCEPT !.collections[Len(db.collections)] = Assign(@, m)]
              ELSE db
     /\ UNCHANGED <<clock, uuids, writes, elsewhere>>

\* the caller assigns into the document it passed to create_collection
MutatePassed(m) ==
  /\ resp.op = "create_collection"
  /\ Assignable(resp.req, m)
  /\ resp' = Returned("mutate", "", [of |-> "document", mutation |-> m], "",
                      Assign(resp.req, m))
  /\ UNCHANGED <<db, clock, uuids, writes, elsewhere>>

NextAlias ==
  \/ \E i \in 1..Len(CollectionDocs) : DbCreateCollection(CollectionDocs[i])
  \/ \E id \in StoredCollectionIds : DbGetCollection(id)
  \/ \E id \in StoredCollectionIds : DbUpdateOne(id, UpdateDocs[1])
  \/ \E q \in {1, 4} : DbFindAll(Queries[q])
  \/ \E q \in {2, 4} : DbFindOne(Queries[q])
  \/ \E m \in 1..Len(Mutations) : MutateReturned(Mutations[m])
  \/ \E m \in 1..Len(Mutations) : MutatePassed(Mutations[m])

\* calls on the provider by a caller that changes the dicts it holds
SpecAlias == Init /\ [][NextAlias]_vars

\* ----------------------------------------------------- requests in flight
\* uvicorn.run(app) serves every request on one asyncio event loop: a request
\* is a task, and the task that is running keeps the loop until it awaits
\* something that is not ready, or returns.
MaxTasks == 2

\* an await that always hands the loop to the tasks that are ready
Suspends_Always(coroutine) == TRUE

\* whether awaiting the MemoryDatabase coroutine hands the loop to another
\* task: find_one, find_all, insert_one and delete_one read and write
\* _database and return, none of them awaits anything that is not ready
Suspends(coroutine) == FALSE

\* the requests that are sent while others are in flight
Requests ==
  {[op |-> op, id |-> id,
    req |-> IF op = "create_qa_pair" THEN QaPairInputs[1] ELSE None] :
     op \in {"create_qa_pair", "delete_collection"},
     id \in {"col1", "no-such-collection"}}

\* the task of a request whose handler has not been entered; qa_pairs is the
\* local of delete_collection, code the status answered
Task(request) ==
  [op |-> request.op, id |-> request.id, req |-> request.req,
   pc |-> "start", qa_pairs |-> <<>>, code |-> 0]

\* task i can take its next step: the loop is idle, or the task holds it
CanRun(i) == loop.tasks[i].pc # "done" /\ loop.running \in {0, i}

\* the loop after task i has awaited coroutine and goes on as task
Awaited(i, coroutine, task) ==
  [tasks |-> [loop.tasks EXCEPT ![i] = task],
   running |-> IF Suspends(coroutine) THEN 0 ELSE i]

\* the loop after the handler of task i has returned or raised
Finished(i, code) ==
  [tasks |-> [loop.tasks EXCEPT ![i].pc = "done", ![i].code = code],
   running |-> 0]

\* a request arrives and becomes a task
Accept(request) ==
  /\ loop.running = 0
  /\ Len(loop.tasks) < MaxTasks
  /\ loop' = [loop EXCEPT !.tasks = Append(@, Task(request))]
  /\ UNCHANGED <<db, clock, uuids, writes, resp, users, issued, hashes, instances>>

\* create_qa_pair up to its first await:
\* collection = await collections_db.find_one({"id": collection_id})
CreateCheck(i) ==
  LET task == loop.tasks[i]
  IN /\ task.op = "create_qa_pair" /\ task.pc = "start" /\ CanRun(i)
     /\ IF find_one(db.collections, [id |-> task.id]) = None
        THEN /\ loop' = Finished(i, 404)
             /\ resp' = Response("POST /collections/{id}/qa-pairs", task.id,
                                 task.req, 404, None)
        ELSE /\ loop' = Awaited(i, "find_one", [task EXCEPT !.pc = "checked"])
             /\ UNCHANGED resp
     /\ UNCHANGED <<db, clock, uuids, writes, users, issued, hashes, instances>>

\* create_qa_pair from the check to its return:
\* await qa_pairs_db.insert_one(new_qa_pair); return new_qa_pair
CreateInsert(i) ==
  LET task == loop.tasks[i]
  IN /\ task.op = "create_qa_pair" /\ task.pc = "checked" /\ CanRun(i)
     /\ \E now \in Reads(clock, 2) :
          LET t1 == now[1]
              t2 == now[2]
              new_qa_pair ==
                [id |-> Uuid(uuids + 1),
                 collection_id |-> task.id,
                 question |-> task.req.question,
                 answer |-> task.req.answer,
                 documents |-> task.req.documents,
                 status |-> IF task.req.status # "" THEN task.req.status
                            ELSE "ready_for_review",
                 metadata |-> task.req.metadata,
                 created_at |-> t1,
                 updated_at |-> t1,
                 created_by |-> "demo_user"]
          IN /\ db' = [db EXCEPT !.qa_pairs =
                         Append(@, insert_one("qa_pairs", @, new_qa_pair, t2))]
             /\ clock' = t2
             /\ resp' = Response("POST /collections/{id}/qa-pairs", task.id,
                                 task.req, 201, new_qa_pair)
     /\ loop' = Finished(i, 201)
     /\ uuids' = uuids + 1
     /\ writes' = writes + 1
     /\ UNCHANGED <<users, issued, hashes, instances>>

\* delete_collection up to its first await:
\* collection = await self.find_one({"id": collection_id})
DeleteFind(i) ==
  LET task == loop.tasks[i]
  IN /\ task.op = "delete_collection" /\ task.pc = "start" /\ CanRun(i)
     /\ IF find_one(db.collections, [id |-> task.id]) = None
        THEN /\ loop' = Finished(i, 404)
             /\ resp' = Response("DELETE /collections/{id}", task.id, None, 404, None)
        ELSE /\ loop' = Awaited(i, "find_one", [task EXCEPT !.pc = "found"])
             /\ UNCHANGED resp
     /\ UNCHANGED <<db, clock, uuids, writes, users, issued, hashes, instances>>

\* qa_pairs = await qa_pairs_db.find_all({"collection_id": collection_id})
DeleteList(i) ==
  LET task == loop.tasks[i]
  IN /\ task.op = "delete_collection" /\ task.pc = "found" /\ CanRun(i)
     /\ loop' = Awaited(i, "find_all",
                        [task EXCEPT !.pc = "listed",
                                     !.qa_pairs = find_all(db.qa_pairs,
                                                           [collection_id |-> task.id])])
     /\ UNCHANGED <<db, clock, uuids, writes, resp, users, issued, hashes, instances>>

\* one round of: for qa_pair in qa_pairs:
\*                   await qa_pairs_db.delete_one({"id": qa_pair["id"]})
DeleteCascade(i) ==
  LET task == loop.tasks[i]
      qa_pair == Head(task.qa_pairs)
  IN /\ task.op = "delete_collection" /\ task.pc = "listed" /\ CanRun(i)
     /\ task.qa_pairs # <<>>
     /\ IF "id" \notin DOMAIN qa_pair
        THEN /\ loop' = Finished(i, 500)
             /\ resp' = Response("DELETE /collections/{id}", task.id, None, 500, None)
             /\ writes' = writes + 1
             /\ UNCHANGED db
        ELSE /\ db' = [db EXCEPT !.qa_pairs = delete_one(@, [id |-> qa_pair.id])]
             /\ loop' = Awaited(i, "delete_one", [task EXCEPT !.qa_pairs = Tail(@)])
             /\ UNCHANGED <<resp, writes>>
     /\ UNCHANGED <<clock, uuids, users, issued, hashes, instances>>

\* deleted = await self.delete_one({"id": collection_id}), after the loop;
\* "if not deleted" raises the ValueError that the handler answers with 404
DeleteFinish(i) ==
  LET task == loop.tasks[i]
  IN /\ task.op = "delete_collection" /\ task.pc = "listed" /\ CanRun(i)
     /\ task.qa_pairs = <<>>
     /\ IF FirstMatch(db.collections, [id |-> task.id]) = 0
        THEN /\ loop' = Finished(i, 404)
             /\ resp' = Response("DELETE /collections/{id}", task.id, None, 404, None)
             /\ UNCHANGED <<db, writes>>
        ELSE /\ db' = [db EXCEPT !.collections = delete_one(@, [id |-> task.id])]
             /\ loop' = Finished(i, 204)
             /\ resp' = Response("DELETE /collections/{id}", task.id, None, 204, None)
             /\ writes' = writes + 1
     /\ UNCHANGED <<clock, uuids, users, issued, hashes, instances>>

NextLoop ==
  \/ \E request \in Requests : Accept(request)
  \/ \E i \in 1..Len(loop.tasks) : CreateCheck(i)
  \/ \E i \in 1..Len(loop.tasks) : CreateInsert(i)
  \/ \E i \in 1..Len(loop.tasks) : DeleteFind(i)
  \/ \E i \in 1..Len(loop.tasks) : DeleteList(i)
  \/ \E i \in 1..Len(loop.tasks) : DeleteCascade(i)
  \/ \E i \in 1..Len(loop.tasks) : DeleteFinish(i)

\* requests on the router that are in flight together
SpecLoop == Init /\ [][NextLoop]_vars

\* ---------------------------------------------- MemoryDatabase instances
\* every method of an instance reads and writes _database[self.collection_name];
\* the instance itself holds the name only

\* names handed to get_database / get_memory_database
CollectionNames == {"collections", "qa_pairs", "notes"}

\* documents handed to insert_one through an instance
InstanceDocs ==
  << [name |-> "Test Collection", description |-> "A test collection"],
     [id |-> "n1", name |-> "Field note"] >>

\* a constructor that starts every instance on an empty list
init_Clears(d, collection_name) == Put(d, collection_name, <<>>)

\* MemoryDatabase.__init__: _database after the constructor ran
init(d, collection_name) ==
  IF collection_name \notin DOMAIN d
  THEN Put(d, collection_name, <<>>)
  ELSE d

\* get_database(collection_name), get_memory_database(collection_name)
GetDatabase(collection_name) ==
  /\ writes < MaxCalls
  /\ instances' = Append(instances, collection_name)
  /\ db' = init(db, collection_name)
  /\ resp' = Returned("get_database", collection_name, None, "", Len(instances) + 1)
  /\ writes' = writes + 1
  /\ UNCHANGED <<clock, uuids, users, issued, hashes, loop>>

\* instance i .insert_one(document)
InstanceInsertOne(i, document) ==
  LET collection_name == instances[i]
  IN /\ writes < MaxCalls
     /\ \E now \in Reads(clock, 1) :
          LET document_copy == insert_one(collection_name, db[collection_name],
                                          document, now[1])
          IN /\ db' = [db EXCEPT ![collection_name] = Append(@, document_copy)]
             /\ clock' = now[1]
             /\ resp' = Returned("instance.insert_one", collection_name,
                                 [instance |-> i, document |-> document],
                                 "", document_copy)
     /\ writes' = writes + 1
     /\ UNCHANGED <<uuids, elsewhere>>

\* instance i .delete_one({"id": item_id})
InstanceDeleteOne(i, item_id) ==
  LET collection_name == instances[i]
      found == FirstMatch(db[collection_name], [id |-> item_id]) # 0
      op == "instance.delete_one"
      req == [instance |-> i, id |-> item_id]
  IN IF ~found
     THEN /\ resp' = Returned(op, collection_name, req, "", FALSE)
          /\ UNCHANGED <<db, clock, uuids, writes, elsewhere>>
     ELSE /\ writes < MaxCalls
          /\ db' = [db EXCEPT ![collection_name] = delete_one(@, [id |-> item_id])]
          /\ resp' = Returned(op, collection_name, req, "", TRUE)
          /\ writes' = writes + 1
          /\ UNCHANGED <<clock, uuids, elsewhere>>

\* instance i .find_all()
InstanceFindAll(i) ==
  LET collection_name == instances[i]
  IN /\ resp' = Returned("instance.find_all", collection_name, [instance |-> i],
                         "", find_all(db[collection_name], None))
     /\ UNCHANGED <<db, clock, uuids, writes, elsewhere>>

NextInstances ==
  \/ \E collection_name \in CollectionNames : GetDatabase(collection_name)
  \/ \E i \in 1..Len(instances) : \E d \in 1..Len(InstanceDocs) :
       InstanceInsertOne(i, InstanceDocs[d])
  \/ \E i \in 1..Len(instances) : \E item_id \in {"col1", "qa1", "n1"} :
       InstanceDeleteOne(i, item_id)
  \/ \E i \in 1..Len(instances) : InstanceFindAll(i)

\* instances are constructed and used in any order
SpecInstances == Init /\ [][NextInstances]_vars

\* ------------------------------------------------- SimpleAuthProvider
\* A JWT is the record of its payload and of the key it was signed with;
\* times are minutes, as everywhere.
SECRET_KEY == "development_secret_key_change_in_production"

ACCESS_TOKEN_EXPIRE_MINUTES == 30

\* what a provider method answers: the value returned (code 200) or the
\* HTTPException raised
Answer(code, detail, body) == [code |-> code, detail |-> detail, body |-> body]

\* jwt.encode(payload, key, algorithm=ALGORITHM)
encode(payload, key) == [payload |-> payload, key |-> key]

\* jwt.decode(token, key, algorithms=[ALGORITHM]) at time now: the payload, or
\* the PyJWTError raised for a text that is no token, a signature made with
\* another key, or an exp that has passed
decode(token, key, now) ==
  IF token.payload = None THEN [exc |-> "DecodeError", payload |-> None]
  ELSE IF token.key # key THEN [exc |-> "InvalidSignatureError", payload |-> None]
  ELSE IF "exp" \in DOMAIN token.payload /\ token.payload.exp <= now
  THEN [exc |-> "ExpiredSignatureError", payload |-> None]
  ELSE [exc |-> "", payload |-> token.payload]

\* create_access_token(data, expires_delta), datetime.now(UTC) returning now
create_access_token(data, expires_delta, now) ==
  encode(Put(data, "exp", now + expires_delta), SECRET_KEY)

\* the user record without the password
UserInfo(user) ==
  [id |-> user.id, name |-> user.name, email |-> user.email, roles |-> user.roles]

\* an authenticate that does not compare passwords
authenticate_AnyPassword(table, username, password, now) ==
  IF username \notin DOMAIN table
  THEN Answer(401, "Incorrect username or password", None)
  ELSE Answer(200, "",
         [access_token |-> create_access_token(
                             [sub |-> table[username].email,
                              roles |-> table[username].roles],
                             ACCESS_TOKEN_EXPIRE_MINUTES, now),
          token_type |-> "bearer",
          user |-> UserInfo(table[username])])

\* SimpleAuthProvider.authenticate(username, password)
authenticate(table, username, password, now) ==
  LET user == IF username \in DOMAIN table THEN table[username] ELSE None
  IN IF user = None \/ user.password # password
     THEN Answer(401, "Incorrect username or password", None)
     ELSE Answer(200, "",
            [access_token |-> create_access_token(
                                [sub |-> user.email, roles |-> user.roles],
                                ACCESS_TOKEN_EXPIRE_MINUTES, now),
             token_type |-> "bearer",
             user |-> UserInfo(user)])

\* a register that does not look for the email in the table
register_Overwrites(table, user_data) ==
  LET new_user == [id |-> "user_" \o ToString(Cardinality(DOMAIN table) + 1),
                   name |-> user_data.name,
                   email |-> user_data.email,
                   password |-> user_data.password,
                   roles |-> <<"contributor">>]
  IN [table |-> Put(table, user_data.email, new_user),
      answer |-> Answer(200, "", UserInfo(new_user))]

\* SimpleAuthProvider.register(user_data): the table afterwards and the answer.
\* user_data carries a name, as the dict the router builds always does.
register(table, user_data) ==
  IF user_data.email \in DOMAIN table
  THEN [table |-> table,
        answer |-> Answer(400, "Email already registered", None)]
  ELSE LET new_user == [id |-> "user_" \o ToString(Cardinality(DOMAIN table) + 1),
                        name |-> user_data.name,
                        email |-> user_data.email,
                        password |-> user_data.password,
                        roles |-> <<"contributor">>]
       IN [table |-> Put(table, user_data.email, new_user),
           answer |-> Answer(200, "", UserInfo(new_user))]

\* a verify_token that does not look the sub up in the user table
verify_token_NoLookup(table, token, now) ==
  LET d == decode(token, SECRET_KEY, now)
  IN IF d.exc # "" THEN Answer(401, "Could not validate credentials", None)
     ELSE IF "sub" \notin DOMAIN d.payload THEN Answer(401, "Invalid token", None)
     ELSE Answer(200, "", [email |-> d.payload.sub,
                           roles |-> Get(d.payload, "roles", <<>>)])

\* SimpleAuthProvider.verify_token(token) at time now
verify_token(table, token, now) ==
  LET d == decode(token, SECRET_KEY, now)
      payload == d.payload
  IN IF d.exc # "" THEN Answer(401, "Could not validate credentials", None)
     ELSE IF "sub" \notin DOMAIN payload THEN Answer(401, "Invalid token", None)
     ELSE IF payload.sub \notin DOMAIN table THEN Answer(401, "User not found", None)
     ELSE Answer(200, "", [email |-> payload.sub,
                           roles |-> Get(payload, "roles", <<>>)])

\* user_data handed to register: two new emails and two keys of the table
RegisterInputs ==
  << [email |-> "new@example.com", name |-> "New User", password |-> "secret"],
     [email |-> "second@example.com", name |-> "second", password |-> "password"],
     [email |-> "demo@example.com", name |-> "Impostor", password |-> "hijack"],
     [email |-> "admin", name |-> "admin", password |-> "hijack"] >>

\* the credentials tried: those of the integration test, a seeded user with
\* another user's password, and those of the users register adds
Credentials ==
  << [username |-> "demo", password |-> "password"],
     [username |-> "demo@example.com", password |-> "password"],
     [username |-> "admin@example.com", password |-> "admin123"],
     [username |-> "demo", password |-> "wrong"],
     [username |-> "demo", password |-> "admin123"],
     [username |-> "unknown", password |-> "password"],
     [username |-> "new@example.com", password |-> "secret"],
     [username |-> "new@example.com", password |-> "hijack"],
     [username |-> "New User", password |-> "secret"] >>

\* tokens that authenticate never handed out: a text that is no JWT, a token
\* signed with another key, and tokens signed with SECRET_KEY that carry no
\* sub, a sub that no register call adds, a sub that register may add, or
\* neither exp nor roles
ForgedTokens ==
  { encode(None, NoneStr),
    encode([sub |-> "admin@example.com", roles |-> <<"contributor", "admin">>,
            exp |-> ClockStart + 1000], "guessed_key"),
    encode([roles |-> <<"admin">>, exp |-> ClockStart + 1000], SECRET_KEY),
    encode([sub |-> "ghost@example.com", roles |-> <<"admin">>,
            exp |-> ClockStart + 1000], SECRET_KEY),
    encode([sub |-> "new@example.com", roles |-> <<"contributor">>,
            exp |-> ClockStart + 1000], SECRET_KEY),
    encode([sub |-> "demo"], SECRET_KEY) }

\* provider.register(user_data)
Register(user_data) ==
  LET r == register(users, user_data)
  IN /\ r.table # users => writes < MaxCalls
     /\ users' = r.table
     /\ writes' = IF r.table # users THEN writes + 1 ELSE writes
     /\ resp' = Response("register", "", user_data, r.answer.code,
                         IF r.answer.code = 200 THEN r.answer.body
                         ELSE [detail |-> r.answer.detail])
     /\ UNCHANGED <<db, clock, uuids, issued, hashes, instances, loop>>

\* provider.authenticate(username, password); the clock is read once, by
\* create_access_token, when the credentials are accepted
Authenticate(username, password) ==
  LET req == [username |-> username, password |-> password]
  IN \E now \in Reads(clock, 1) :
       LET a == authenticate(users, username, password, now[1])
       IN IF a.code = 200
          THEN /\ writes < MaxCalls
               /\ issued' = issued \cup {a.body.access_token}
               /\ clock' = now[1]
               /\ writes' = writes + 1
               /\ resp' = Response("authenticate", "", req, 200, a.body)
               /\ UNCHANGED <<db, uuids, users, hashes, instances, loop>>
          ELSE /\ resp' = Response("authenticate", "", req, a.code,
                                   [detail |-> a.detail])
               /\ UNCHANGED <<db, clock, uuids, writes, users, issued, hashes,
                              instances, loop>>

\* provider.verify_token(token)
VerifyToken(token) ==
  LET a == verify_token(users, token, clock)
  IN /\ resp' = Response("verify_token", "", [token |-> token], a.code,
                         IF a.code = 200 THEN a.body ELSE [detail |-> a.detail])
     /\ UNCHANGED <<db, clock, uuids, writes, elsewhere>>

\* no call for as long as a token lives
Sleep ==
  /\ writes < MaxCalls
  /\ clock' = clock + ACCESS_TOKEN_EXPIRE_MINUTES
  /\ writes' = writes + 1
  /\ resp' = Response("sleep", "", None, 0, None)
  /\ UNCHANGED <<db, uuids, elsewhere>>

NextAuth ==
  \/ \E i \in 1..Len(RegisterInputs) : Register(RegisterInputs[i])
  \/ \E i \in 1..Len(Credentials) :
       Authenticate(Credentials[i].username, Credentials[i].password)
  \/ \E token \in issued \cup ForgedTokens : VerifyToken(token)
  \/ Sleep

\* any sequence of calls on the authentication provider, with pauses
SpecAuth == Init /\ [][NextAuth]_vars

\* ------------------------------------------- MemoryDataSourceProvider
\* A text is the sequence of its characters; a relevance score is counted in
\* thousandths.
\* titles and contents of the sample documents, character by character
Title1 ==
  <<"E","q","u","i","p","m","e","n","t"," ","M","a","i","n","t","e","n","a",
    "n","c","e"," ","M","a","n","u","a","l">>

Content1 ==
  <<"R","e","g","u","l","a","r"," ","m","a","i","n","t","e","n","a","n","c",
    "e"," ","o","f"," ","e","q","u","i","p","m","e","n","t"," ","i","s"," ",
    "e","s","s","e","n","t","i","a","l"," ","f","o","r"," ","o","p","t","i",
    "m","a","l"," ","p","e","r","f","o","r","m","a","n","c","e","."," ","T",
    "h","i","s"," ","d","o","c","u","m","e","n","t"," ","o","u","t","l","i",
    "n","e","s"," ","m","a","i","n","t","e","n","a","n","c","e"," ","p","r",
    "o","c","e","d","u","r","e","s"," ","f","o","r"," ","v","a","r","i","o",
    "u","s"," ","e","q","u","i","p","m","e","n","t"," ","t","y","p","e","s",
    ".">>

Title2 ==
  <<"T","r","o","u","b","l","e","s","h","o","o","t","i","n","g"," ","G","u",
    "i","d","e",":"," ","A","i","r"," ","F","i","l","t","e","r","s">>

Content2 ==
  <<"C","o","m","m","o","n"," ","i","s","s","u","e","s"," ","w","i","t","h",
    " ","a","i","r"," ","f","i","l","t","e","r","s"," ","i","n","c","l","u",
    "d","e"," ","c","l","o","g","g","i","n","g",","," ","i","m","p","r","o",
    "p","e","r"," ","i","n","s","t","a","l","l","a","t","i","o","n",","," ",
    "a","n","d"," ","i","n","s","u","f","f","i","c","i","e","n","t"," ","a",
    "i","r","f","l","o","w","."," ","T","h","i","s"," ","g","u","i","d","e",
    " ","p","r","o","v","i","d","e","s"," ","s","t","e","p","-","b","y","-",
    "s","t","e","p"," ","t","r","o","u","b","l","e","s","h","o","o","t","i",
    "n","g"," ","p","r","o","c","e","d","u","r","e","s"," ","f","o","r"," ",
    "i","d","e","n","t","i","f","y","i","n","g"," ","a","n","d"," ","r","e",
    "s","o","l","v","i","n","g"," ","a","i","r"," ","f","i","l","t","e","r",
    " ","p","r","o","b","l","e","m","s",".">>

Title3 ==
  <<"S","a","f","e","t","y"," ","P","r","o","t","o","c","o","l","s"," ","f",
    "o","r"," ","E","q","u","i","p","m","e","n","t"," ","O","p","e","r","a",
    "t","i","o","n">>

Content3 ==
  <<"S","a","f","e","t","y"," ","i","s"," ","p","a","r","a","m","o","u","n",
    "t"," ","w","h","e","n"," ","o","p","e","r","a","t","i","n","g"," ","i",
    "n","d","u","s","t","r","i","a","l"," ","e","q","u","i","p","m","e","n",
    "t","."," ","T","h","i","s"," ","d","o","c","u","m","e","n","t"," ","c",
    "o","v","e","r","s"," ","e","s","s","e","n","t","i","a","l"," ","s","a",
    "f","e","t","y"," ","p","r","o","t","o","c","o","l","s",","," ","i","n",
    "c","l","u","d","i","n","g"," ","p","e","r","s","o","n","a","l"," ","p",
    "r","o","t","e","c","t","i","v","e"," ","e","q","u","i","p","m","e","n",
    "t",","," ","p","r","e","-","o","p","e","r","a","t","i","o","n"," ","c",
    "h","e","c","k","s",","," ","a","n","d"," ","e","m","e","r","g","e","n",
    "c","y"," ","p","r","o","c","e","d","u","r","e","s",".">>

Title4 ==
  <<"T","e","c","h","n","i","c","a","l"," ","S","p","e","c","i","f","i","c",
    "a","t","i","o","n","s",":"," ","M","o","d","e","l"," ","X"," ","S","e",
    "r","i","e","s">>

Content4 ==
  <<"T","e","c","h","n","i","c","a","l"," ","s","p","e","c","i","f","i","c",
    "a","t","i","o","n","s"," ","f","o","r"," ","t","h","e"," ","M","o","d",
    "e","l"," ","X"," ","s","e","r","i","e","s"," ","i","n","c","l","u","d",
    "e"," ","p","o","w","e","r"," ","r","e","q","u","i","r","e","m","e","n",
    "t","s",","," ","d","i","m","e","n","s","i","o","n","a","l"," ","c","o",
    "n","s","t","r","a","i","n","t","s",","," ","o","p","e","r","a","t","i",
    "n","g"," ","c","o","n","d","i","t","i","o","n","s",","," ","a","n","d",
    " ","p","e","r","f","o","r","m","a","n","c","e"," ","m","e","t","r","i",
    "c","s","."," ","R","e","f","e","r","e","n","c","e"," ","t","h","i","s",
    " ","d","o","c","u","m","e","n","t"," ","w","h","e","n"," ","p","l","a",
    "n","n","i","n","g"," ","i","n","s","t","a","l","l","a","t","i","o","n",
    "s"," ","o","r"," ","u","p","g","r","a","d","e","s",".">>

Title5 ==
  <<"A","I"," ","G","r","o","u","n","d"," ","T","r","u","t","h"," ","G","e",
    "n","e","r","a","t","i","o","n"," ","B","e","s","t"," ","P","r","a","c",
    "t","i","c","e","s">>

Content5 ==
  <<"C","r","e","a","t","i","n","g"," ","h","i","g","h","-","q","u","a","l",
    "i","t","y"," ","g","r","o","u","n","d"," ","t","r","u","t","h"," ","d",
    "a","t","a"," ","i","s"," ","e","s","s","e","n","t","i","a","l"," ","f",
    "o","r"," ","t","r","a","i","n","i","n","g"," ","e","f","f","e","c","t",
    "i","v","e"," ","A","I"," ","m","o","d","e","l","s","."," ","T","h","i",
    "s"," ","d","o","c","u","m","e","n","t"," ","c","o","v","e","r","s"," ",
    "b","e","s","t"," ","p","r","a","c","t","i","c","e","s"," ","f","o","r",
    " ","d","a","t","a"," ","a","n","n","o","t","a","t","i","o","n",","," ",
    "q","u","a","l","i","t","y"," ","c","o","n","t","r","o","l",","," ","a",
    "n","d"," ","d","a","t","a","s","e","t"," ","m","a","n","a","g","e","m",
    "e","n","t"," ","t","o"," ","e","n","s","u","r","e"," ","o","p","t","i",
    "m","a","l"," ","m","o","d","e","l"," ","p","e","r","f","o","r","m","a",
    "n","c","e",".">>

Title6 ==
  <<"D","a","t","a"," ","A","n","n","o","t","a","t","i","o","n"," ","G","u",
    "i","d","e","l","i","n","e","s"," ","f","o","r"," ","M","a","c","h","i",
    "n","e"," ","L","e","a","r","n","i","n","g">>

Content6 ==
  <<"P","r","o","p","e","r"," ","d","a","t","a"," ","a","n","n","o","t","a",
    "t","i","o","n"," ","i","s"," ","c","r","u","c","i","a","l"," ","f","o",
    "r"," ","d","e","v","e","l","o","p","i","n","g"," ","a","c","c","u","r",
    "a","t","e"," ","m","a","c","h","i","n","e"," ","l","e","a","r","n","i",
    "n","g"," ","m","o","d","e","l","s","."," ","T","h","i","s"," ","d","o",
    "c","u","m","e","n","t"," ","p","r","o","v","i","d","e","s"," ","g","u",
    "i","d","e","l","i","n","e","s"," ","f","o","r"," ","c","o","n","s","i",
    "s","t","e","n","t",","," ","h","i","g","h","-","q","u","a","l","i","t",
    "y"," ","a","n","n","o","t","a","t","i","o","n","s"," ","a","c","r","o",
    "s","s"," ","d","i","f","f","e","r","e","n","t"," ","d","a","t","a"," ",
    "t","y","p","e","s"," ","i","n","c","l","u","d","i","n","g"," ","t","e",
    "x","t",","," ","i","m","a","g","e","s",","," ","a","n","d"," ","a","u",
    "d","i","o",".">>

\* self.documents
Documents ==
  << [id |-> "doc1", title |-> Title1, content |-> Content1,
      url |-> "https://example.com/docs/equipment-manual.pdf",
      metadata |-> [type |-> "manual", topic |-> "maintenance",
                   equipment_type |-> "general", created_date |-> "2023-01-15",
                   status |-> "approved"]],
     [id |-> "doc2", title |-> Title2, content |-> Content2,
      url |-> "https://example.com/docs/airfilter-guide.pdf",
      metadata |-> [type |-> "guide", topic |-> "troubleshooting",
                   component |-> "air filter", created_date |-> "2023-03-22"]],
     [id |-> "doc3", title |-> Title3, content |-> Content3,
      url |-> "https://example.com/docs/safety-protocols.pdf",
      metadata |-> [type |-> "protocol", topic |-> "safety",
                   importance |-> "critical", created_date |-> "2023-05-10"]],
     [id |-> "doc4", title |-> Title4, content |-> Content4,
      url |-> "https://example.com/docs/model-x-specs.pdf",
      metadata |-> [type |-> "specifications", topic |-> "technical",
                   product |-> "Model X", created_date |-> "2023-02-18"]],
     [id |-> "doc5", title |-> Title5, content |-> Content5,
      url |-> "https://example.com/docs/ai-ground-truth-best-practices.pdf",
      metadata |-> [type |-> "guide", topic |-> "ai",
                   subtopic |-> "data preparation",
                   created_date |-> "2023-06-15"]],
     [id |-> "doc6", title |-> Title6, content |-> Content6,
      url |-> "https://example.com/docs/data-annotation-guidelines.pdf",
      metadata |-> [type |-> "guidelines", topic |-> "data annotation",
                   subtopic |-> "machine learning",
                   created_date |-> "2023-07-20"]] >>

\* str.lower on the letters the documents and queries use
LowerOf ==
  [A |-> "a", B |-> "b", C |-> "c", D |-> "d", E |-> "e", F |-> "f", G |-> "g",
   H |-> "h", I |-> "i", J |-> "j", K |-> "k", L |-> "l", M |-> "m", N |-> "n",
   O |-> "o", P |-> "p", Q |-> "q", R |-> "r", S |-> "s", T |-> "t", U |-> "u",
   V |-> "v", W |-> "w", X |-> "x", Y |-> "y", Z |-> "z"]

\* text.lower(), built once as a sequence
lower(text) ==
  SubSeq([i \in 1..Len(text) |->
            IF text[i] \in DOMAIN LowerOf THEN LowerOf[text[i]] ELSE text[i]],
         1, Len(text))

\* needle in text
contains(text, needle) ==
  \E i \in 1..(Len(text) - Len(needle) + 1) :
    SubSeq(text, i, i + Len(needle) - 1) = needle

\* text.count(term) from position i on: occurrences that do not overlap,
\* found from the left
RECURSIVE count(_, _, _)
count(text, term, i) ==
  LET found == {j \in i..(Len(text) - Len(term) + 1) :
                  SubSeq(text, j, j + Len(term) - 1) = term}
  IN IF found = {} THEN 0
     ELSE LET first == CHOOSE j \in found : \A k \in found : j <= k
          IN 1 + count(text, term, first + Len(term))

\* text.split(): the runs of characters between blanks, in order
split(text) ==
  LET starts == {i \in 1..Len(text) :
                   text[i] # " " /\ (i = 1 \/ text[i - 1] = " ")}
      start(k) == CHOOSE i \in starts : Cardinality({j \in starts : j < i}) = k - 1
      end(i) == CHOOSE j \in i..Len(text) :
                  /\ \A m \in i..j : text[m] # " "
                  /\ (j = Len(text) \/ text[j + 1] = " ")
  IN [k \in 1..Cardinality(starts) |-> SubSeq(text, start(k), end(start(k)))]

\* sum(text.count(term) for term in terms)
RECURSIVE term_count(_, _)
term_count(text, terms) ==
  IF terms = <<>> THEN 0
  ELSE count(text, Head(terms), 1) + term_count(text, Tail(terms))

\* the relevance score of doc, h being hash(doc["id"]) % 100 for every id
relevance_score(doc, query, h) ==
  LET query_lower   == lower(query)
      query_terms   == SelectSeq(split(query_lower), LAMBDA term : Len(term) > 2)
      title_lower   == lower(doc.title)
      content_lower == lower(doc.content)
      title_term_count   == term_count(title_lower, query_terms)
      content_term_count == term_count(content_lower, query_terms)
  IN IF contains(title_lower, query_lower) THEN 950
     ELSE IF contains(content_lower, query_lower) THEN 850
     ELSE IF title_term_count > 0 \/ content_term_count > 0
     THEN Min(800, 300 + ((title_term_count * 3) + content_term_count) * 50)
     ELSE 100 + h[doc.id]

\* filters is a list of entries: metadata tells whether the key began with
\* "metadata.", key is the key without that prefix
filter_matches(doc, filters) ==
  \A f \in 1..Len(filters) :
    IF filters[f].metadata
    THEN /\ filters[f].key \in DOMAIN doc.metadata
         /\ doc.metadata[filters[f].key] = filters[f].value
    ELSE ~(filters[f].key \in DOMAIN doc /\ doc[filters[f].key] # filters[f].value)

\* a sort that leaves the list as it is
sorted_Unsorted(results) == results

\* list.sort(key=relevance_score, reverse=True): stable, highest first
RECURSIVE sorted(_)
sorted(results) ==
  IF results = <<>> THEN <<>>
  ELSE LET done == sorted(SubSeq(results, 1, Len(results) - 1))
           last == results[Len(results)]
           k == Cardinality({i \in 1..Len(done) :
                               done[i].relevance_score >= last.relevance_score})
       IN SubSeq(done, 1, k) \o <<last>> \o SubSeq(done, k + 1, Len(done))

\* results[:limit]; a negative limit counts from the end
slice(results, limit) ==
  IF limit >= 0
  THEN SubSeq(results, 1, Min(limit, Len(results)))
  ELSE SubSeq(results, 1, Len(results) + limit)

\* MemoryDataSourceProvider.retrieve_documents(query, filters, limit)
retrieve_documents(query, filters, limit, h) ==
  LET matching == SelectSeq(Documents, LAMBDA doc : filter_matches(doc, filters))
      all_results ==
        [i \in 1..Len(matching) |->
           Put(Put(matching[i], "source",
                   [id |-> "memory", name |-> "Sample Documents", type |-> "memory"]),
               "relevance_score", relevance_score(matching[i], query, h))]
  IN slice(sorted(all_results), limit)

\* the queries: in every content, empty, matching nothing, in titles, in a
\* title and in contents, with a term that is dropped, in a content only, and
\* many terms
QueryInputs ==
  << <<"T", "h", "i", "s">>,
     <<>>,
     <<"z", "z", "z">>,
     <<"E", "q", "u", "i", "p", "m", "e", "n", "t">>,
     <<"M", "o", "d", "e", "l">>,
     <<"m", "o", "d", "e", "l", " ", "x">>,
     <<"A", "I", " ", "m", "o", "d", "e", "l", "s">>,
     <<"e","q","u","i","p","m","e","n","t"," ","m","a","i","n","t","e","n","a","n","c","e",
       " ","d","a","t","a"," ","a","n","n","o","t","a","t","i","o","n">> >>

\* filters: a metadata filter, a key no document has with an id filter, a
\* metadata value no document has
FilterInputs ==
  << <<[metadata |-> TRUE, key |-> "type", value |-> "guide"]>>,
     <<[metadata |-> FALSE, key |-> "author", value |-> "nobody"],
       [metadata |-> FALSE, key |-> "id", value |-> "doc3"]>>,
     <<[metadata |-> TRUE, key |-> "status", value |-> "draft"]>> >>

\* limit: the default, more than there are documents, one, none, negative
LimitInputs == {5, 10, 1, 0, -1, -7}

\* hash(doc["id"]) % 100 is fixed when the process starts and differs between
\* processes: all equal, rising, falling, and mixed
HashChoices ==
  { [id \in {Documents[i].id : i \in 1..Len(Documents)} |-> 0],
    [doc1 |-> 3, doc2 |-> 17, doc3 |-> 42, doc4 |-> 58, doc5 |-> 71, doc6 |-> 99],
    [doc1 |-> 99, doc2 |-> 80, doc3 |-> 61, doc4 |-> 40, doc5 |-> 22, doc6 |-> 0],
    [doc1 |-> 50, doc2 |-> 7, doc3 |-> 50, doc4 |-> 93, doc5 |-> 7, doc6 |-> 64] }

\* whether the call evaluates hash(doc["id"]): some document that passes
\* the filters matches neither the query nor a term of it
uses_hash(query, filters) ==
  \E i \in 1..Len(Documents) :
    /\ filter_matches(Documents[i], filters)
    /\ relevance_score(Documents[i], query, [id \in {Documents[i].id} |-> 0]) = 100

\* the hash values a call may meet: those the process has shown, any of the
\* choices when it is the first to evaluate a hash, none when it evaluates none
HashesFor(query, filters) ==
  IF hashes # None THEN {hashes}
  ELSE IF uses_hash(query, filters) THEN HashChoices
  ELSE {None}

\* provider.retrieve_documents(query, filters, limit)
RetrieveDocuments(query, filters, limit) ==
  /\ \E h \in HashesFor(query, filters) :
       /\ hashes' = h
       /\ resp' = Returned("retrieve_documents", "",
                           [query |-> query, filters |-> filters, limit |-> limit],
                           "", retrieve_documents(query, filters, limit, h))
  /\ UNCHANGED <<db, clock, uuids, writes, users, issued, instances, loop>>

NextRetrieve ==
  \/ \E q \in 1..Len(QueryInputs) : \E limit \in LimitInputs :
       RetrieveDocuments(QueryInputs[q], None, limit)
  \/ \E f \in 1..Len(FilterInputs) :
       RetrieveDocuments(QueryInputs[4], FilterInputs[f], 5)

\* any sequence of calls on the data source provider
SpecRetrieve == Init /\ [][NextRetrieve]_vars

\* ------------------------------------------------- routers/retrieval.py
\* An Authorization header is None or the list of its blank-separated parts;
\* a scheme is a text, a token is a JWT.
bearer == <<"b", "e", "a", "r", "e", "r">>

Bearer == <<"B", "e", "a", "r", "e", "r">>

\* the headers a request may carry: none, a scheme alone, three parts,
\* another scheme, and the bearer scheme, in two spellings, with a token
Authorizations ==
  {None, <<Bearer>>}
    \cup {<<Bearer, token, token>> : token \in issued}
    \cup {<<<<"B", "a", "s", "i", "c">>, token>> : token \in issued}
    \cup {<<bearer, token>> : token \in issued}
    \cup {<<Bearer, token>> : token \in issued \cup ForgedTokens}

\* an auth check that is content with any header of two parts
auth_check_AnyScheme(table, authorization, now) ==
  IF authorization = None THEN Answer(401, "Not authenticated", None)
  ELSE IF Len(authorization) # 2
  THEN Answer(401, "Invalid authentication credentials", None)
  ELSE Answer(200, "", None)

\* the auth check of search_documents_get: 200 when the request may go on
auth_check(table, authorization, now) ==
  IF authorization = None THEN Answer(401, "Not authenticated", None)
  ELSE IF Len(authorization) # 2 \/ lower(authorization[1]) # bearer
  THEN Answer(401, "Invalid authentication credentials", None)
  ELSE LET a == verify_token(table, authorization[2], now)
       IN IF a.code # 200 THEN Answer(401, a.detail, None)
          ELSE Answer(200, "", None)

\* GET /retrieval/search?query=..&provider=..&limit=.. with the header given
SearchDocumentsGet(query, provider, limit, authorization) ==
  LET op  == "GET /retrieval/search"
      req == [query |-> query, provider |-> provider, limit |-> limit,
              authorization |-> authorization]
      checked == auth_check(users, authorization, clock)
  IN IF checked.code # 200
     THEN /\ resp' = Response(op, "", req, 401, [detail |-> checked.detail])
          /\ UNCHANGED <<db, clock, uuids, writes, elsewhere>>
     ELSE IF provider # "memory"
     THEN /\ resp' = Response(op, "", req, 400, [detail |-> "Invalid provider"])
          /\ UNCHANGED <<db, clock, uuids, writes, elsewhere>>
     ELSE /\ \E h \in HashesFor(query, None) :
               /\ hashes' = h
               /\ resp' = Response(op, "", req, 200,
                                   retrieve_documents(query, None, limit, h))
          /\ UNCHANGED <<db, clock, uuids, writes, users, issued, instances, loop>>

NextSearch ==
  \/ Authenticate(Credentials[1].username, Credentials[1].password)
  \/ Sleep
  \/ \E authorization \in Authorizations :
       SearchDocumentsGet(QueryInputs[1], "memory", 5, authorization)
  \/ \E token \in issued :
       SearchDocumentsGet(QueryInputs[1], "files", 5, <<Bearer, token>>)

\* logins, pauses and searches in any order
SpecSearch == Init /\ [][NextSearch]_vars

\* ------------------------------------------------------------ properties
StatusEnum == {"ready_for_review", "approved", "revision_requested", "rejected"}

\* indices of the QA pairs that belong to collection id
Owned(d, id) == {i \in 1..Len(d.qa_pairs) : d.qa_pairs[i].collection_id = id}

RECURSIVE SumOver(_, _)
SumOver(f, keys) ==
  IF keys = {} THEN 0
  ELSE LET k == CHOOSE x \in keys : TRUE
       IN f[k] + SumOver(f, keys \ {k})

\* C1: referential integrity.  After any sequence of create / update / delete
\* collection and create / patch QA pair requests, every record of qa_pairs
\* has the collection_id of some record of collections.
C1_ReferentialIntegrity ==
  \A i \in 1..Len(db.qa_pairs) :
    \E j \in 1..Len(db.collections) :
      db.collections[j].id = db.qa_pairs[i].collection_id

\* a QA pair was created through the API in col1 and col1 was then deleted,
\* taking its four seeded QA pairs and the created one with it
C1_Witness ==
  /\ uuids = 1
  /\ resp.op = "DELETE /collections/{id}" /\ resp.id = "col1" /\ resp.code = 204
  /\ Len(db.collections) = Len(SeedCollections) - 1
  /\ Len(db.qa_pairs) = Len(SeedQaPairs) - 4

\* the statistics of one returned collection are the tally over the store
FreshTally(c) ==
  /\ c.document_count = Cardinality(Owned(db, c.id))
  /\ DOMAIN c.status_counts = {db.qa_pairs[i].status : i \in Owned(db, c.id)}
  /\ \A s \in DOMAIN c.status_counts :
       /\ c.status_counts[s] =
            Cardinality({i \in Owned(db, c.id) : db.qa_pairs[i].status = s})
       /\ c.status_counts[s] > 0
  /\ SumOver(c.status_counts, DOMAIN c.status_counts) = c.document_count

\* C3: derived counts are a fresh tally.  Every collection returned by
\* GET /collections, GET /collections/{id} or PUT /collections/{id} carries
\* document_count = number of QA pairs of that collection in the store at the
\* time of the answer, status_counts = their count per status with no zero
\* entry and summing to document_count, whatever document_count the record holds.
C3_FreshTally ==
  /\ (resp.op \in {"GET /collections/{id}", "PUT /collections/{id}"} /\ resp.code = 200)
       => FreshTally(resp.body)
  /\ resp.op = "GET /collections"
       => \A i \in 1..Len(resp.body) : FreshTally(resp.body[i])

\* GET /collections/col1 answered with a count that differs from the
\* document_count kept in the stored record
C3_Witness ==
  /\ resp.op = "GET /collections/{id}" /\ resp.code = 200
  /\ resp.body.document_count # find_one(db.collections, [id |-> resp.id]).document_count
  /\ Cardinality(DOMAIN resp.body.status_counts) > 1

\* C4 (as claimed): a PATCH addressed to a QA pair id that no record has is
\* answered 404.
C4_PatchMissingIs404 ==
  (resp.op = "PATCH /collections/qa-pairs/{id}"
     /\ find_one(db.qa_pairs, [id |-> resp.id]) = None)
    => resp.code = 404

\* the record a request to op is addressed to does not exist in store d
Missing(d, op, id) ==
  \/ /\ op \in {"GET /collections/{id}", "PUT /collections/{id}",
                "DELETE /collections/{id}", "GET /collections/{id}/qa-pairs",
                "POST /collections/{id}/qa-pairs"}
     /\ \A i \in 1..Len(d.collections) : d.collections[i].id # id
  \/ /\ op = "GET /collections/qa-pairs/{id}"
     /\ \A i \in 1..Len(d.qa_pairs) : d.qa_pairs[i].id # id

\* C5: every collection / QA-pair endpoint other than PATCH that is addressed
\* to an id not in the store answers 404 and leaves both stores as they were;
\* POST /collections/{id}/qa-pairs inserts nothing.
C5_MissingIs404 ==
  [][Missing(db, resp'.op, resp'.id) => (resp'.code = 404 /\ db' = db)]_vars

\* a QA pair was posted to a collection that does not exist, after the store
\* had been changed by earlier requests
C5_Witness ==
  /\ resp.op = "POST /collections/{id}/qa-pairs" /\ resp.code = 404
  /\ Missing(db, resp.op, resp.id)
  /\ writes > 0

\* C6 (as claimed): the status of every stored QA pair is one of the four
\* values of the enum.
C6_StatusIsEnum ==
  \A i \in 1..Len(db.qa_pairs) : db.qa_pairs[i].status \in StatusEnum

\* C7: a PATCH on an existing QA pair whose status is none of the four values
\* is answered 400 and the stored pair is left exactly as it was, whatever
\* other fields the request carries.
C7_InvalidStatusRejected ==
  [][(/\ resp'.op = "PATCH /collections/qa-pairs/{id}"
      /\ \E i \in 1..Len(db.qa_pairs) : db.qa_pairs[i].id = resp'.id
      /\ "status" \in DOMAIN resp'.req
      /\ resp'.req.status \notin StatusEnum)
       => (resp'.code = 400 /\ db' = db)]_vars

\* such a PATCH, carrying a valid answer as well, was rejected
C7_Witness ==
  /\ resp.op = "PATCH /collections/qa-pairs/{id}" /\ resp.code = 400
  /\ "answer" \in DOMAIN resp.req
  /\ \E i \in 1..Len(db.qa_pairs) : db.qa_pairs[i].id = resp.id

\* C8 (as claimed): the record a POST returned and the record a GET issued
\* next returns agree on every field the claim lists.
C8_CreateThenRead ==
  /\ (resp.op = "POST /collections" /\ resp.code = 201)
       => LET got == GetCollectionResponse(db, resp.body.id)
          IN /\ got.code = 200
             /\ \A k \in {"id", "name", "description", "tags", "metadata",
                          "created_at", "updated_at"} :
                  got.body[k] = resp.body[k]
  /\ (resp.op = "POST /collections/{id}/qa-pairs" /\ resp.code = 201)
       => LET got == GetQaPairResponse(db, resp.body.id)
          IN /\ got.code = 200
             /\ \A k \in {"id", "collection_id", "question", "answer", "documents",
                          "status", "metadata", "created_at", "updated_at",
                          "created_by"} :
                  got.body[k] = resp.body[k]

\* C2 (as claimed): once delete_collection(c) has returned, no collection
\* record has id c and no QA pair has collection_id c.
C2_CascadeRemovesAll ==
  (resp.op = "delete_collection" /\ resp.exc = "")
    => /\ \A i \in 1..Len(db.collections) : db.collections[i].id # resp.id
       /\ \A i \in 1..Len(db.qa_pairs) : db.qa_pairs[i].collection_id # resp.id

\* C9 (as claimed): get_collection(r.id), r being what create_collection(d)
\* returned for a document d without id, has d's name, description and metadata.
C9_CreateThenGet ==
  (resp.op = "create_collection" /\ "id" \notin DOMAIN resp.req)
    => LET got == find_one(db.collections, [id |-> resp.body.id])
       IN /\ got # None
          /\ \A k \in {"name", "description", "metadata"} : got[k] = resp.req[k]

\* the record with id `id` reads the same before and after the step, except
\* in the keys of `changed`, where it reads as d says
ReflectsUpdate(id, d, changed) ==
  LET before == find_one(db.collections, [id |-> id])
      after  == find_one(db'.collections, [id |-> id])
  IN /\ after # None
     /\ \A k \in changed : k \in DOMAIN after /\ after[k] = d[k]
     /\ \A k \in DOMAIN before \ (DOMAIN d \cup {"updated_at"}) :
          k \in DOMAIN after /\ after[k] = before[k]

UpdateSucceeded(r) ==
  \/ r.op = "update_collection" /\ r.exc = ""
  \/ r.op = "update_one" /\ r.body # None

\* C10 (as claimed): after a successful update with map d, get_collection(id)
\* returns d's value for every key of d other than id and _id, and the earlier
\* value for every key not in d other than updated_at.
C10_UpdateThenGet ==
  [][UpdateSucceeded(resp')
       => ReflectsUpdate(resp'.id, resp'.req, DOMAIN resp'.req \ {"id", "_id"})]_vars

\* C10 (amended): after a successful update with map d, get_collection(id)
\* returns d's value for every key of d other than id, _id and updated_at, and
\* the earlier value for every key not in d other than updated_at.
C10_UpdateThenGetAmended ==
  [][UpdateSucceeded(resp')
       => ReflectsUpdate(resp'.id, resp'.req,
                         DOMAIN resp'.req \ {"id", "_id", "updated_at"})]_vars

\* an update that names some keys and not others was applied to a record
\* that holds keys the update does not name
C10_Witness ==
  /\ UpdateSucceeded(resp)
  /\ "updated_at" \in DOMAIN resp.req
  /\ DOMAIN resp.body \ DOMAIN resp.req # {}
  /\ resp.body.name = resp.req.name

\* --------------------------------------------------- reads of retired ids
\* the read endpoints addressed to an id a request has handed out, whether or
\* not the record still exists
ReadHandedOut ==
  \E n \in 1..uuids :
    \/ GetCollection(Uuid(n))
    \/ GetQaPairs(Uuid(n))
    \/ GetQaPair(Uuid(n))

NextRead == Next \/ ReadHandedOut

\* the requests of Spec, with reads of deleted records among them
SpecRead == Init /\ [][NextRead]_vars

\* every read of id fails on store d: the three GET endpoints answer 404 and
\* get_collection raises
Gone(d, id) ==
  /\ find_one(d.collections, [id |-> id]) = None
  /\ GetQaPairResponse(d, id).code = 404
  /\ list_qa_pairs(d, id).exc = "ValueError"
  /\ GetCollectionResponse(d, id).code = 404

RemoveAt(s, i) == [j \in 1..(Len(s) - 1) |-> IF j < i THEN s[j] ELSE s[j + 1]]

\* C19 (as claimed): delete_collection(c) removes one collection record with
\* id c and exactly the QA pairs whose collection_id is c; every other record
\* of both stores is kept, unchanged and in the same relative order.
C19_DeleteCollectionFrame ==
  [][(resp'.op = "delete_collection" /\ resp'.exc = "")
       => /\ \E i \in 1..Len(db.collections) :
               /\ db.collections[i].id = resp'.id
               /\ db'.collections = RemoveAt(db.collections, i)
          /\ db'.qa_pairs =
               SelectSeq(db.qa_pairs, LAMBDA q : q.collection_id # resp'.id)]_vars

\* C20 (as claimed): find_all(q) is the store filtered, in order, by "every key
\* of q is present and equal", and find_one(q) is the first element of
\* find_all(q), or None when find_all(q) is empty; the empty query included.
C20_FindOneIsFirstOfFindAll ==
  /\ resp.op = "find_all"
       => resp.body = SelectSeq(db.collections, LAMBDA item :
                        \A k \in DOMAIN resp.req :
                          k \in DOMAIN item /\ item[k] = resp.req[k])
  /\ resp.op = "find_one"
       => LET all == find_all(db.collections, resp.req)
          IN resp.body = IF all = <<>> THEN None ELSE all[1]

\* what instance i of the instance list seq reads from store d
Observed(d, seq, i) == find_all(d[seq[i]], None)

C12_AuthenticateIff ==
  [][resp'.op = "authenticate"
       => LET username == resp'.req.username
              known == /\ username \in DOMAIN users
                       /\ users[username].password = resp'.req.password
          IN IF known
             THEN /\ resp'.code = 200
                  /\ resp'.body.token_type = "bearer"
                  /\ resp'.body.user = UserInfo(users[username])
                  /\ resp'.body.access_token \in issued'
             ELSE /\ resp'.code = 401
                  /\ resp'.body = [detail |-> "Incorrect username or password"]
                  /\ issued' = issued]_vars

\* a user added by register has authenticated under the registered email
C12_Witness ==
  /\ resp.op = "authenticate" /\ resp.code = 200
  /\ resp.req.username \notin DOMAIN DEMO_USERS
  /\ resp.body.user.email = resp.req.username

\* what verify_token answers for token at time now is the email and roles
\* of the user the token was issued to
YieldsUser(table, token, now) ==
  LET a == verify_token(table, token, now)
  IN /\ a.code = 200
     /\ a.body.email = token.payload.sub
     /\ \E k \in DOMAIN table :
          /\ table[k].email = a.body.email
          /\ table[k].roles = a.body.roles

\* signed with another key, without sub, or with a sub that is no key
Unacceptable(table, token) ==
  \/ token.payload = None
  \/ token.key # SECRET_KEY
  \/ "sub" \notin DOMAIN token.payload
  \/ token.payload.sub \notin DOMAIN table

\* C13 (as claimed): every token authenticate has handed out is accepted by
\* verify_token and yields the email and roles of the user it was issued to;
\* verify_token raises 401 for a token that is not validly signed, has no sub,
\* or whose sub is no key of the user table.
C13_TokenRoundTrip ==
  /\ \A token \in issued : YieldsUser(users, token, clock)
  /\ (resp.op = "authenticate" /\ resp.code = 200)
       => verify_token(users, resp.body.access_token, clock).body
            = [email |-> users[resp.req.username].email,
               roles |-> users[resp.req.username].roles]
  /\ (resp.op = "verify_token" /\ Unacceptable(users, resp.req.token))
       => resp.code = 401

\* C13 (amended): the same for as long as the token has not expired, that is
\* until ACCESS_TOKEN_EXPIRE_MINUTES after authenticate issued it; from then
\* on verify_token raises 401 for it.
C13_TokenRoundTripUntilExpiry ==
  /\ \A token \in issued :
       IF clock < token.payload.exp
       THEN YieldsUser(users, token, clock)
       ELSE verify_token(users, token, clock).code = 401
  /\ (resp.op = "authenticate" /\ resp.code = 200)
       => verify_token(users, resp.body.access_token, clock).body
            = [email |-> users[resp.req.username].email,
               roles |-> users[resp.req.username].roles]
  /\ (resp.op = "verify_token" /\ Unacceptable(users, resp.req.token))
       => resp.code = 401

\* verify_token has accepted the token of a user added by register
C13_Witness ==
  /\ resp.op = "verify_token" /\ resp.code = 200
  /\ resp.req.token \in issued
  /\ resp.body.email \notin DOMAIN DEMO_USERS
  /\ resp.body.roles = <<"contributor">>

\* C14: register with an email that is a key of the user table raises 400
\* 'Email already registered' and leaves the table as it was; with a new email
\* it adds one entry under that email, with roles [contributor] and an id no
\* entry had, and leaves every other entry as it was.
C14_Register ==
  [][resp'.op = "register"
       => LET email == resp'.req.email
          IN IF email \in DOMAIN users
             THEN /\ resp'.code = 400
                  /\ resp'.body = [detail |-> "Email already registered"]
                  /\ users' = users
             ELSE /\ resp'.code = 200
                  /\ DOMAIN users' = DOMAIN users \cup {email}
                  /\ \A k \in DOMAIN users : users'[k] = users[k]
                  /\ users'[email].email = email
                  /\ users'[email].roles = <<"contributor">>
                  /\ resp'.body = UserInfo(users'[email])
                  /\ \A k \in DOMAIN users : users[k].id # users'[email].id]_vars

\* a second new user has been registered, after the first
C14_Witness ==
  /\ resp.op = "register" /\ resp.code = 200
  /\ Cardinality(DOMAIN users) = Cardinality(DOMAIN DEMO_USERS) + 2
  /\ resp.body.id = "user_6"

\* C15 (as claimed): retrieve_documents returns at most limit documents,
\* whatever integer limit is (none for a limit below zero), and at least one
\* document when it is called without filters and limit >= 1.
C15_AtMostLimit ==
  resp.op = "retrieve_documents"
    => /\ Len(resp.body) <= (IF resp.req.limit < 0 THEN 0 ELSE resp.req.limit)
       /\ (resp.req.filters = None /\ resp.req.limit >= 1) => Len(resp.body) >= 1

\* how doc matches query: 4 the whole query is in the title, 3 it is in the
\* content only, 2 only single terms of it occur, 1 nothing matches
Tier(doc, query) ==
  LET q == lower(query)
      terms == SelectSeq(split(q), LAMBDA term : Len(term) > 2)
  IN IF contains(lower(doc.title), q) THEN 4
     ELSE IF contains(lower(doc.content), q) THEN 3
     ELSE IF \E t \in 1..Len(terms) :
               \/ contains(lower(doc.title), terms[t])
               \/ contains(lower(doc.content), terms[t])
     THEN 2
     ELSE 1

\* C16: the list retrieve_documents returns is in descending order of
\* relevance_score; a document of a higher tier (title, content, terms,
\* nothing) has a higher score than, and comes before, one of a lower tier;
\* every document returned carries a source with id 'memory'.
C16_RankedByRelevance ==
  resp.op = "retrieve_documents"
    => /\ \A i \in 1..(Len(resp.body) - 1) :
            resp.body[i].relevance_score >= resp.body[i + 1].relevance_score
       /\ \A i, j \in 1..Len(resp.body) :
            Tier(resp.body[i], resp.req.query) > Tier(resp.body[j], resp.req.query)
              => /\ i < j
                 /\ resp.body[i].relevance_score > resp.body[j].relevance_score
       /\ \A i \in 1..Len(resp.body) :
            /\ "source" \in DOMAIN resp.body[i]
            /\ resp.body[i].source.id = "memory"

\* all six documents were returned, with a title match, term matches and
\* documents that match nothing among them
C16_Witness ==
  /\ resp.op = "retrieve_documents"
  /\ Len(resp.body) = Len(Documents)
  /\ {2, 4} \subseteq {Tier(resp.body[i], resp.req.query) : i \in 1..Len(resp.body)}
  /\ Tier(resp.body[Len(resp.body)], resp.req.query) = 1
  /\ resp.body[1].id # "doc1"

\* C17: GET /retrieval/search answers with documents only for a header of
\* two parts whose scheme is bearer and whose token verify_token accepts;
\* without a header, with another number of parts, another scheme or a
\* rejected token it answers 401 and returns no document.
C17_SearchRequiresToken ==
  resp.op = "GET /retrieval/search"
    => LET authorization == resp.req.authorization
           accepted == /\ authorization # None
                       /\ Len(authorization) = 2
                       /\ lower(authorization[1]) = bearer
                       /\ verify_token(users, authorization[2], clock).code = 200
       IN IF accepted
          THEN /\ resp.code \in {200, 400}
               /\ resp.code = 200 <=> resp.req.provider = "memory"
               /\ resp.code = 200
                    => resp.body = retrieve_documents(resp.req.query, None,
                                                      resp.req.limit, hashes)
          ELSE /\ resp.code = 401
               /\ DOMAIN resp.body = {"detail"}

\* a search with an issued token was answered with documents
C17_Witness ==
  /\ resp.op = "GET /retrieval/search" /\ resp.code = 200
  /\ resp.req.authorization[2] \in issued
  /\ Len(resp.body) = 5
  /\ \A i \in 1..Len(resp.body) : resp.body[i].source.id = "memory"

\* indices of the records of store that the filter loop accepts for query
Matching(store, query) == {j \in 1..Len(store) : Matches(store[j], query)}

\* C21: update_one and delete_one act on the first matching record only.
\* When records match, update_one changes the first of them in store order
\* and returns it, delete_one removes the first of them and returns True, and
\* every other record keeps its content and its place in the order; when none
\* matches, update_one returns None, delete_one returns False and the store
\* is as it was.
C21_FirstMatchOnly ==
  [][LET store == db.collections
         after == db'.collections
         M     == Matching(store, resp'.req.query)
         first == CHOOSE i \in M : \A j \in M : i <= j
     IN /\ db'.qa_pairs = db.qa_pairs
        /\ resp'.op = "update_one" =>
             IF M = {} THEN resp'.body = None /\ after = store
             ELSE /\ Len(after) = Len(store)
                  /\ \A j \in 1..Len(store) : j # first => after[j] = store[j]
                  /\ after[first] # store[first]
                  /\ resp'.body = after[first]
        /\ resp'.op = "delete_one" =>
             IF M = {} THEN resp'.body = FALSE /\ after = store
             ELSE /\ resp'.body = TRUE
                  /\ Len(after) = Len(store) - 1
                  /\ after = RemoveAt(store, first)]_vars

\* a delete by a query removed one record while another record that matches
\* the query is still stored; an update had changed a record before, and a
\* seeded record is as it was
C21_Witness ==
  /\ resp.op = "delete_one" /\ resp.body = TRUE
  /\ Matching(db.collections, resp.req.query) # {}
  /\ \E j \in 1..Len(db.collections) : db.collections[j].updated_at > ClockStart
  /\ \E j \in 1..Len(db.collections) : db.collections[j] = SeedCollections[3]

\* C22 (as claimed): after any sequence of insert_one calls with documents
\* that carry no id and of delete_one calls on the collections store, no two
\* of its records have the same id.
C22_GeneratedIdsUnique ==
  \A i, j \in 1..Len(db.collections) :
    db.collections[i].id = db.collections[j].id => i = j

\* the metadata stored in d for the QA pair id, {} when it has none
StoredMetadata(d, id) == Get(find_one(d.qa_pairs, [id |-> id]), "metadata", None)

\* a PATCH was answered 200 in the step
Patched(r) == r.op = "PATCH /collections/qa-pairs/{id}" /\ r.code = 200

\* C23: PATCH merges metadata.  After a successful PATCH carrying metadata m
\* that does not set status to approved, the stored metadata has exactly the
\* keys of the metadata e stored before and of m, with m's value for every
\* key of m and e's value for every key only in e; a PATCH without a metadata
\* field leaves the stored metadata as it was.
C23_PatchMergesMetadata ==
  [][Patched(resp') =>
       LET e     == StoredMetadata(db, resp'.id)
           after == StoredMetadata(db', resp'.id)
           req   == resp'.req
       IN /\ ("metadata" \in DOMAIN req /\ Get(req, "status", NoneStr) # "approved")
               => /\ DOMAIN after = DOMAIN e \cup DOMAIN req.metadata
                  /\ \A k \in DOMAIN req.metadata : after[k] = req.metadata[k]
                  /\ \A k \in DOMAIN e \ DOMAIN req.metadata : after[k] = e[k]
          /\ "metadata" \notin DOMAIN req => after = e]_vars

\* two PATCHes with disjoint metadata keys were applied to qa6, and the keys
\* of both are stored next to the keys the pair had before
C23_Witness ==
  /\ Patched(resp) /\ resp.id = "qa6" /\ "metadata" \in DOMAIN resp.req
  /\ {"priority", "revision_comments", "reviewer_note", "revision_feedback",
      "revision_requested_by"} \subseteq DOMAIN StoredMetadata(db, "qa6")
  /\ StoredMetadata(db, "qa6").priority = "medium"

\* metadata.revision_history of the QA pair id, [] when it has none
History(d, id) == Get(StoredMetadata(d, id), "revision_history", <<>>)

\* C24 (as claimed): whenever a PATCH sets the status to approved and the
\* stored metadata holds a non-empty revision_feedback or revision_comments,
\* the stored metadata afterwards has none of revision_feedback,
\* revision_comments, revision_requested_by, revision_requested_at, and its
\* revision_history has gained exactly one entry, which records the previous
\* feedback with archive_reason moved_to_history_on_approval.
C24_ApprovalArchivesFeedback ==
  [][LET e     == StoredMetadata(db, resp'.id)
         after == StoredMetadata(db', resp'.id)
         h     == History(db', resp'.id)
     IN (/\ Patched(resp')
         /\ Get(resp'.req, "status", NoneStr) = "approved"
         /\ Truthy(e, "revision_feedback") \/ Truthy(e, "revision_comments"))
          => /\ DOMAIN after \cap {"revision_feedback", "revision_comments",
                                   "revision_requested_by", "revision_requested_at"} = {}
             /\ Len(h) = Len(History(db, resp'.id)) + 1
             /\ h[Len(h)].archive_reason = "moved_to_history_on_approval"
             /\ h[Len(h)].revision_feedback =
                  (IF Truthy(e, "revision_feedback") THEN e.revision_feedback
                   ELSE e.revision_comments)]_vars

\* C25 (as claimed): over any sequence of PATCH requests the stored
\* metadata.revision_history of a QA pair never loses an entry and its entries
\* never change; each PATCH leaves it as it was or appends one entry at the end.
C25_HistoryAppendOnly ==
  [][\A id \in PatchTargets :
       LET h     == History(db, id)
           after == History(db', id)
       IN /\ Len(after) \in {Len(h), Len(h) + 1}
          /\ \A i \in 1..Len(h) : after[i] = h[i]]_vars

\* the four read endpoints of the collections router
ReadOps ==
  {"GET /collections", "GET /collections/{id}", "GET /collections/{id}/qa-pairs",
   "GET /collections/qa-pairs/{id}"}

\* C27: reads have no effect on the store.  GET /collections,
\* GET /collections/{id}, GET /collections/{id}/qa-pairs and
\* GET /collections/qa-pairs/{id} leave collections and qa_pairs exactly as
\* they were, whether they answer 200 or 404; status_counts and
\* sample_questions are never keys of a stored collection record, and the
\* document_count a read computes is not written into it.
C27_ReadsLeaveStore ==
  [][/\ resp'.op \in ReadOps => db' = db
     /\ \A i \in 1..Len(db'.collections) :
          DOMAIN db'.collections[i] \cap {"status_counts", "sample_questions"} = {}]_vars

\* GET /collections answered with a document_count for col1 that differs
\* from the one the stored record keeps, and with sample questions
C27_Witness ==
  /\ resp.op = "GET /collections"
  /\ writes > 0
  /\ db.collections[1].id = "col1"
  /\ resp.body[1].document_count # db.collections[1].document_count
  /\ Len(resp.body[1].sample_questions) = 3

\* C28 (as claimed): no record handed across the MemoryDatabase interface
\* aliases the store.  When the caller assigns into the document it passed to
\* insert_one, or into a record that insert_one, find_one, find_all or
\* update_one returned (nested dicts included), the store is as it was, so
\* that a later find_one / find_all returns what it would have returned.
C28_NoAliasing ==
  [][resp'.op = "mutate"
       => /\ db' = db
          /\ \A q \in 1..Len(Queries) :
               /\ find_all(db'.collections, Queries[q]) = find_all(db.collections, Queries[q])
               /\ find_one(db'.collections, Queries[q]) = find_one(db.collections, Queries[q])]_vars

\* C29 (as claimed): every document retrieve_documents returns for a
\* non-empty filters map satisfies every filter: for a key 'metadata.k' its
\* metadata has k with the given value, for any other key the document has
\* that key with the given value; a document lacking a filtered key is never
\* returned.
C29_FiltersSound ==
  (resp.op = "retrieve_documents" /\ resp.req.filters # None)
    => \A i \in 1..Len(resp.body) : \A f \in 1..Len(resp.req.filters) :
         LET doc    == resp.body[i]
             filter == resp.req.filters[f]
         IN IF filter.metadata
            THEN /\ filter.key \in DOMAIN doc.metadata
                 /\ doc.metadata[filter.key] = filter.value
            ELSE /\ filter.key \in DOMAIN doc
                 /\ doc[filter.key] = filter.value

\* records r and r2 have the same keys among keys, with the same values
SameIn(r, r2, keys) ==
  \A k \in keys : IF k \in DOMAIN r
                   THEN k \in DOMAIN r2 /\ r[k] = r2[k]
                   ELSE k \notin DOMAIN r2

\* the step neither inserts nor deletes, keeps id and _id of every record and,
\* when it is a PATCH or PUT request, the identity fields of every record
IdentityKept ==
  /\ Len(db'.collections) = Len(db.collections)
  /\ Len(db'.qa_pairs) = Len(db.qa_pairs)
  /\ \A i \in 1..Len(db.collections) :
       SameIn(db.collections[i], db'.collections[i], {"id", "_id"})
  /\ \A i \in 1..Len(db.qa_pairs) :
       SameIn(db.qa_pairs[i], db'.qa_pairs[i], {"id", "_id"})
  /\ resp'.op \in {"PATCH /collections/qa-pairs/{id}", "PUT /collections/{id}"}
       => /\ \A i \in 1..Len(db.qa_pairs) :
               SameIn(db.qa_pairs[i], db'.qa_pairs[i],
                      {"id", "collection_id", "created_at", "created_by"})
          /\ \A i \in 1..Len(db.collections) :
               SameIn(db.collections[i], db'.collections[i], {"id", "created_at"})

\* the pairs <<record before, record after>> of the records the step changed
Changed ==
  {<<db.collections[i], db'.collections[i]>> :
     i \in {j \in 1..Len(db.collections) : db'.collections[j] # db.collections[j]}}
  \cup
  {<<db.qa_pairs[i], db'.qa_pairs[i]>> :
     i \in {j \in 1..Len(db.qa_pairs) : db'.qa_pairs[j] # db.qa_pairs[j]}}

\* C30 (as claimed): no update_one call changes a record's id or _id, whatever
\* the update map contains; no PATCH or PUT request changes a QA pair's id,
\* collection_id, created_at or created_by, or a collection's id or
\* created_at; and every successful update leaves updated_at no earlier than
\* its previous value and no earlier than created_at.
C30_IdentityImmutable ==
  [][/\ IdentityKept
     /\ \A c \in Changed :
          /\ c[2].updated_at >= c[1].updated_at
          /\ c[2].updated_at >= c[2].created_at]_vars

\* C30 (amended): id and _id are kept by every update_one call, and the
\* identity fields by every PATCH and PUT request, as claimed; every
\* successful update leaves updated_at no earlier than its previous value,
\* and no earlier than created_at if it was so before, unless the map given
\* to update_one carries a created_at, which replaces the stored one.
C30_IdentityImmutableAmended ==
  [][/\ IdentityKept
     /\ \A c \in Changed :
          /\ c[2].updated_at >= c[1].updated_at
          /\ (/\ c[1].updated_at >= c[1].created_at
              /\ ~(resp'.op = "update_one" /\ "created_at" \in DOMAIN resp'.req))
               => c[2].updated_at >= c[2].created_at]_vars

\* update_one was called with a map that names another id, and the record
\* has kept its id and taken the map's name; a QA pair had been patched before
C30_Witness ==
  /\ resp.op = "update_one" /\ resp.body # None
  /\ "id" \in DOMAIN resp.req /\ resp.body.id # resp.req.id
  /\ resp.body.name = resp.req.name
  /\ resp.body.updated_at > resp.req.updated_at
  /\ \E i \in 1..Len(db.qa_pairs) : db.qa_pairs[i].updated_at > ClockStart

\* the QA pairs that requests have created whose collection_id names no
\* record of the collections store
Dangling(d) ==
  {k \in 1..Len(d.qa_pairs) :
     /\ d.qa_pairs[k].id \in {Uuid(n) : n \in 1..uuids}
     /\ find_one(d.collections, [id |-> d.qa_pairs[k].collection_id]) = None}

\* a create-QA-pair task and a delete-collection task for the same collection
RaceOn(i, j) ==
  /\ loop.tasks[i].op = "create_qa_pair"
  /\ loop.tasks[j].op = "delete_collection"
  /\ loop.tasks[i].id = loop.tasks[j].id

\* C26: request handlers are not atomic with respect to each other: while a
\* create-QA-pair request for collection c is between its existence check and
\* its insert, nothing keeps a delete-collection request for c that is in
\* flight from running.
C26_DeleteRunsBetweenCheckAndInsert ==
  \A i, j \in 1..Len(loop.tasks) :
    RaceOn(i, j) /\ loop.tasks[i].pc = "checked" /\ loop.tasks[j].pc # "done"
      => CanRun(j)

\* C26 (amended): a handler keeps the event loop from its first await on the
\* in-memory store to its return, so a create-QA-pair request and a
\* delete-collection request for the same collection that are in flight
\* together run one after the other: at every moment no QA pair a request
\* has created names a collection that does not exist, and once the create
\* has returned and the delete has answered 204 no QA pair of the collection
\* is left, whichever of the two ran first.
C26_HandlersRunOneAfterTheOther ==
  /\ Dangling(db) = {}
  /\ \A i, j \in 1..Len(loop.tasks) :
       RaceOn(i, j) /\ loop.tasks[i].pc = "done" /\ loop.tasks[j].code = 204
         => find_all(db.qa_pairs, [collection_id |-> loop.tasks[j].id]) = <<>>

\* the delete for col1 arrived first and was still waiting when the create
\* for col1 ran and answered 201; the delete then ran and answered 204
C26_Witness ==
  /\ Len(loop.tasks) >= 2
  /\ RaceOn(2, 1)
  /\ loop.tasks[1].id = "col1"
  /\ loop.tasks[2].code = 201
  /\ loop.tasks[1].code = 204
  /\ uuids >= 1

====
